---- MODULE Spec2Model ----
(***************************************************************************)
(* Model of the Fluent UI icon search service (iconSearchService.ts) and   *)
(* of the MCP tool handler that calls it (server.ts).                      *)
(*                                                                         *)
(* Strings are sequences of one-character strings, so that case folding,   *)
(* PascalCase splitting, substring search and approximate matching are     *)
(* computed character by character, as the code computes them.             *)
(*                                                                         *)
(* Numbers the code keeps as doubles are kept in fixed point: a Fuse.js    *)
(* score s in [0,1] is the integer 1000*s (rounded down), and a layer      *)
(* score of x points is the integer 1000*x ("millipoints").                *)
(***************************************************************************)
EXTENDS Integers, Sequences, FiniteSets, TLC

(***************************************************************************)
(* Characters and strings                                                  *)
(***************************************************************************)
UpperLetters == <<"A","B","C","D","E","F","G","H","I","J","K","L","M",
                  "N","O","P","Q","R","S","T","U","V","W","X","Y","Z">>

LowerLetters == <<"a","b","c","d","e","f","g","h","i","j","k","l","m",
                  "n","o","p","q","r","s","t","u","v","w","x","y","z">>

IndexOfChar(c, letters) ==
  IF \E i \in 1..Len(letters) : letters[i] = c
  THEN CHOOSE i \in 1..Len(letters) : letters[i] = c
  ELSE 0

\* String.prototype.toLowerCase / toUpperCase on one character: letters are
\* folded, every other character (digit, "_", blank) is returned unchanged.
toLowerCaseChar(c) ==
  LET i == IndexOfChar(c, UpperLetters) IN IF i = 0 THEN c ELSE LowerLetters[i]

toUpperCaseChar(c) ==
  LET i == IndexOfChar(c, LowerLetters) IN IF i = 0 THEN c ELSE UpperLetters[i]

\* A sequence given as a function, with every element computed
Tuple(f) == SubSeq(f, 1, Len(f))

toLowerCase(s) == Tuple([i \in 1..Len(s) |-> toLowerCaseChar(s[i])])

\* /\s/ for the characters the model uses
IsSpace(c) == c = " "

\* String.prototype.trim
RECURSIVE trimStart(_)
trimStart(s) ==
  IF s # <<>> /\ IsSpace(Head(s)) THEN trimStart(Tail(s)) ELSE s

RECURSIVE trimEnd(_)
trimEnd(s) ==
  IF s # <<>> /\ IsSpace(s[Len(s)]) THEN trimEnd(SubSeq(s, 1, Len(s) - 1)) ELSE s

trim(s) == trimEnd(trimStart(s))

\* s.split(/\s+/): the pieces between maximal runs of blanks (an empty string
\* gives one empty piece, as in JavaScript)
RECURSIVE splitWhitespaceFrom(_, _, _)
splitWhitespaceFrom(s, cur, inRun) ==
  IF s = <<>> THEN <<cur>>
  ELSE IF IsSpace(Head(s))
       THEN IF inRun THEN splitWhitespaceFrom(Tail(s), cur, TRUE)
            ELSE <<cur>> \o splitWhitespaceFrom(Tail(s), <<>>, TRUE)
       ELSE splitWhitespaceFrom(Tail(s), Append(cur, Head(s)), FALSE)

splitWhitespace(s) == splitWhitespaceFrom(s, <<>>, FALSE)

\* The concatenation of a sequence of sequences
Flatten(seqs) ==
  LET RECURSIVE Go(_, _)
      Go(lo, hi) ==
        IF lo > hi THEN <<>>
        ELSE IF lo = hi THEN seqs[lo]
        ELSE Go(lo, (lo + hi) \div 2) \o Go((lo + hi) \div 2 + 1, hi)
  IN Go(1, Len(seqs))

\* A loop over a sequence that carries a value: Op folded over the elements
\* from the first to the last.  The range is halved and the value carried is
\* evaluated before the loop goes on, which keeps the evaluation shallow
FoldLeft(Op(_, _), base, seq) ==
  LET RECURSIVE Go(_, _, _)
      Go(lo, hi, acc) ==
        IF lo > hi \/ acc # acc THEN acc
        ELSE IF lo = hi THEN Op(acc, seq[lo])
        ELSE Go((lo + hi) \div 2 + 1, hi, Go(lo, (lo + hi) \div 2, acc))
  IN Go(1, Len(seq), base)

\* A stable sort: every element is put behind the elements sorted so far that
\* it does not come before
InsertBy(Before(_, _), sorted, x) ==
  SelectSeq(sorted, LAMBDA y : ~Before(x, y)) \o <<x>>
    \o SelectSeq(sorted, LAMBDA y : Before(x, y))

SortBy(Before(_, _), seq) ==
  FoldLeft(LAMBDA sorted, x : InsertBy(Before, sorted, x), <<>>, seq)

\* The distinct elements of a sequence in order of first occurrence (the
\* iteration order of a JavaScript Set)
SetOrder(seq) ==
  Flatten([i \in 1..Len(seq) |->
    IF \E j \in 1..(i - 1) : seq[j] = seq[i] THEN <<>> ELSE <<seq[i]>>])

\* Array.prototype.includes / indexOf (1-based, 0 when absent)
Includes(seq, x) == \E i \in 1..Len(seq) : seq[i] = x

IndexOf(seq, x) ==
  IF Includes(seq, x)
  THEN CHOOSE i \in 1..Len(seq) : seq[i] = x /\ \A j \in 1..(i - 1) : seq[j] # x
  ELSE 0

\* String.prototype.indexOf(pattern): first 1-based position, 0 when absent
OccursAt(text, pattern, i) ==
  /\ i + Len(pattern) - 1 <= Len(text)
  /\ \A k \in 1..Len(pattern) : text[i + k - 1] = pattern[k]

StringIndexOf(text, pattern) ==
  IF \E i \in 1..(Len(text) + 1) : OccursAt(text, pattern, i)
  THEN CHOOSE i \in 1..(Len(text) + 1) :
         OccursAt(text, pattern, i) /\ \A j \in 1..(i - 1) : ~OccursAt(text, pattern, j)
  ELSE 0

\* String.prototype.endsWith
EndsWith(s, suffix) ==
  /\ Len(suffix) <= Len(s)
  /\ SubSeq(s, Len(s) - Len(suffix) + 1, Len(s)) = suffix

Min2(a, b) == IF a <= b THEN a ELSE b

Max2(a, b) == IF a >= b THEN a ELSE b

\* Array.prototype.slice(0, end) for an integer end (a negative end counts
\* from the end of the array)
Slice0(seq, end) ==
  IF end >= 0 THEN SubSeq(seq, 1, Min2(end, Len(seq)))
  ELSE SubSeq(seq, 1, Max2(0, Len(seq) + end))

(***************************************************************************)
(* Static data.  The generated catalog (icon-names.ts), the visual tag     *)
(* index (icon-visual-tags.ts) and the two synonym dictionaries are data   *)
(* files outside the service; the model uses a small excerpt of each.      *)
(***************************************************************************)
Regular == <<"R", "e", "g", "u", "l", "a", "r">>

Filled == <<"F", "i", "l", "l", "e", "d">>

Color == <<"C", "o", "l", "o", "r">>

\* FLUENT_ICON_NAMES, in the generated (alphabetical) order
FLUENT_ICON_NAMES ==
  << <<"A", "r", "r", "o", "w", "D", "o", "w", "n", "l", "o", "a", "d", "F", "i", "l", "l", "e", "d">>,
     <<"A", "r", "r", "o", "w", "D", "o", "w", "n", "l", "o", "a", "d", "R", "e", "g", "u", "l", "a", "r">>,
     <<"D", "e", "l", "e", "t", "e", "F", "i", "l", "l", "e", "d">>,
     <<"D", "e", "l", "e", "t", "e", "R", "e", "g", "u", "l", "a", "r">>,
     <<"D", "r", "i", "n", "k", "B", "e", "e", "r", "F", "i", "l", "l", "e", "d">>,
     <<"E", "r", "r", "o", "r", "C", "i", "r", "c", "l", "e", "C", "o", "l", "o", "r">>,
     <<"F", "i", "l", "t", "e", "r", "F", "i", "l", "l", "e", "d">>,
     <<"G", "l", "o", "b", "e", "E", "r", "r", "o", "r", "R", "e", "g", "u", "l", "a", "r">>,
     <<"S", "a", "v", "e", "R", "e", "g", "u", "l", "a", "r">>,
     <<"T", "r", "a", "s", "h", "R", "e", "g", "u", "l", "a", "r">> >>

\* semanticIconMapping: its own keys, each with its fragment list
semanticIconMapping ==
  << [key |-> <<"d", "e", "l", "e", "t", "e">>,
      patterns |-> << <<"D", "e", "l", "e", "t", "e">>, <<"T", "r", "a", "s", "h">>, <<"R", "e", "m", "o", "v", "e">>, <<"D", "i", "s", "m", "i", "s", "s">>, <<"C", "l", "e", "a", "r">> >>],
     [key |-> <<"e", "r", "a", "s", "e">>,
      patterns |-> << <<"E", "r", "a", "s", "e", "r">>, <<"C", "l", "e", "a", "r">>, <<"D", "e", "l", "e", "t", "e">>, <<"B", "a", "c", "k", "s", "p", "a", "c", "e">> >>],
     [key |-> <<"s", "a", "v", "e">>,
      patterns |-> << <<"S", "a", "v", "e">>, <<"C", "h", "e", "c", "k", "m", "a", "r", "k">>, <<"A", "r", "r", "o", "w", "D", "o", "w", "n", "l", "o", "a", "d">>, <<"D", "i", "s", "k">> >>],
     [key |-> <<"b", "e", "e", "r">>,
      patterns |-> << <<"D", "r", "i", "n", "k", "B", "e", "e", "r">>, <<"D", "r", "i", "n", "k">>, <<"C", "u", "p">> >>],
     [key |-> <<"c", "a", "n", "c", "e", "l">>,
      patterns |-> << <<"D", "i", "s", "m", "i", "s", "s">>, <<"C", "a", "n", "c", "e", "l">>, <<"X">>, <<"C", "l", "o", "s", "e">> >>],
     [key |-> <<"f", "u", "l", "l">>,
      patterns |-> << <<"F", "u", "l", "l">>, <<"B", "a", "t", "t", "e", "r", "y">>, <<"C", "i", "r", "c", "l", "e">> >>] >>

\* Object.keys(semanticIconMapping)
semanticKeys == Tuple([i \in 1..Len(semanticIconMapping) |-> semanticIconMapping[i].key])

\* Property names every object literal inherits from Object.prototype and that
\* a lower-cased query word can spell
ObjectPrototypeKeys == { <<"_", "_", "p", "r", "o", "t", "o", "_", "_">>, <<"c", "o", "n", "s", "t", "r", "u", "c", "t", "o", "r">> }

\* TAG_DICTIONARY (excerpt, in dictionary order)
TAG_DICTIONARY ==
  << <<"a", "r", "r", "o", "w">>, <<"f", "i", "l", "t", "e", "r", "i", "n", "g">>, <<"d", "e", "l", "e", "t", "i", "n", "g">>, <<"r", "e", "m", "o", "v", "i", "n", "g">>, <<"e", "r", "r", "o", "r">>,
     <<"n", "e", "t", "w", "o", "r", "k">>, <<"d", "r", "i", "n", "k">>, <<"d", "o", "w", "n">> >>

\* ICON_VISUAL_TAGS: base name -> indices into TAG_DICTIONARY, in the order of
\* Object.entries (sorted by base name).  ErrorCircle has only a Color entry in
\* the catalog, so neither of its Regular/Filled names exists.
ICON_VISUAL_TAGS ==
  << [baseName |-> <<"A", "r", "r", "o", "w", "D", "o", "w", "n", "l", "o", "a", "d">>, tags |-> <<1, 8>>],
     [baseName |-> <<"D", "e", "l", "e", "t", "e">>, tags |-> <<3, 4>>],
     [baseName |-> <<"D", "r", "i", "n", "k", "B", "e", "e", "r">>, tags |-> <<7>>],
     [baseName |-> <<"E", "r", "r", "o", "r", "C", "i", "r", "c", "l", "e">>, tags |-> <<5>>],
     [baseName |-> <<"F", "i", "l", "t", "e", "r">>, tags |-> <<2>>],
     [baseName |-> <<"G", "l", "o", "b", "e", "E", "r", "r", "o", "r">>, tags |-> <<5, 6>>],
     [baseName |-> <<"T", "r", "a", "s", "h">>, tags |-> <<3, 4>>] >>

\* synonymsLib(word): the `synonyms` package, a dictionary from a word to its
\* synonyms by part of speech (undefined, here <<>>, for a word it lacks)
synonymsLib(word) ==
  IF word = <<"d", "e", "l", "e", "t", "e">>
    THEN << << <<"d", "e", "l", "e", "t", "e">>, <<"e", "r", "a", "s", "e">>, <<"c", "a", "n", "c", "e", "l">> >> >>
  ELSE IF word = <<"s", "a", "v", "e">>
    THEN << << <<"s", "a", "v", "e">>, <<"e", "c", "o", "n", "o", "m", "y">> >>, << <<"s", "a", "v", "e">>, <<"k", "e", "e", "p">>, <<"L", "a", "y", "_", "A", "s", "i", "d", "e">>, <<"k", "e", "e", "p">> >> >>
  ELSE <<>>

\* wordnet.lookup(word): WordNet's synsets for the word, each a list of
\* synonyms in which compound words are joined by "_"
wordnetLookup(word) ==
  IF word = <<"b", "e", "e", "r">>
    THEN << << <<"b", "e", "e", "r">> >> >>
  ELSE IF word = <<"f", "i", "l", "l", "e", "d">>
    THEN << << <<"f", "i", "l", "l", "e", "d">> >>, << <<"f", "i", "l", "l">>, <<"f", "i", "l", "l", "_", "u", "p">>, <<"m", "a", "k", "e", "_", "f", "u", "l", "l">> >> >>
  ELSE <<>>

(***************************************************************************)
(* Inputs of the model                                                     *)
(***************************************************************************)
Q_save == <<"s", "a", "v", "e">>

Q_delete == <<"D", "e", "l", "e", "t", "e">>

Q_beer == <<"b", "e", "e", "r">>

Q_filled == <<"f", "i", "l", "l", "e", "d">>

Q_deleting == <<"d", "e", "l", "e", "t", "i", "n", "g">>

Q_proto == <<"_", "_", "p", "r", "o", "t", "o", "_", "_">>

Q_nonsense == <<"q", "z", "x">>

Q_blank == <<" ", " ">>

Q_beerDelete == <<" ", "b", "e", "e", "r", " ", " ", "D", "e", "l", "e", "t", "e">>

\* sixteen characters, one of which occurs in the variant suffix "Regular"
Q_oneInSixteen == <<"q", "q", "q", "q", "q", "q", "q", "q", "q", "q", "q", "q", "q", "q", "q", "g">>

\* a ConceptMapping key whose fragments and whose fuzzy matches name
\* different entries
Q_full == <<"f", "u", "l", "l">>

QueryList ==
  << Q_save, Q_delete, Q_beer, Q_filled, Q_deleting, Q_proto, Q_nonsense,
     Q_blank, Q_beerDelete, Q_oneInSixteen, Q_full >>

Queries == {QueryList[i] : i \in 1..Len(QueryList)}

Quote == "\""

\* A query with a quoted word, for the text of the tool result
Q_deleteQuoted == <<"d", "e", "l", "e", "t", "e", " ">> \o << Quote >> \o <<"b", "i", "n">> \o << Quote >>

\* The queries searchIcons is run for
SearchedQueries == QueryList \o << Q_deleteQuoted >>

\* thresholds, in thousandths: 0.1 is the default, 1 the loosest of [0,1],
\* 1.5 lies outside [0,1]
DefaultThreshold == 100

ThresholdList == << DefaultThreshold, 400, 1000, 1500 >>

Thresholds == {ThresholdList[i] : i \in 1..Len(ThresholdList)}

\* maxResults: 20 is the default, 0 lies outside the precondition
DefaultMaxResults == 20

MaxResultsList == << 1, DefaultMaxResults, 0 >>

MaxResultsValues == {MaxResultsList[i] : i \in 1..Len(MaxResultsList)}

(***************************************************************************)
(* Icon names                                                              *)
(***************************************************************************)
\* name.match(/^(.+?)(Regular|Filled|Color)$/)
parseIconName(name) ==
  LET Ends(v) == EndsWith(name, v) /\ Len(name) > Len(v)
      variant == IF Ends(Regular) THEN Regular
                 ELSE IF Ends(Filled) THEN Filled
                 ELSE IF Ends(Color) THEN Color
                 ELSE <<>>
  IN [baseName |-> SubSeq(name, 1, Len(name) - Len(variant)), variant |-> variant]

\* iconSearchItems: the catalog with parsed names
iconSearchItems ==
  Tuple([i \in 1..Len(FLUENT_ICON_NAMES) |->
     [name |-> FLUENT_ICON_NAMES[i],
      baseName |-> parseIconName(FLUENT_ICON_NAMES[i]).baseName,
      variant |-> parseIconName(FLUENT_ICON_NAMES[i]).variant]])

(***************************************************************************)
(* Synonym lookup: the two tiers of getSynonyms                            *)
(***************************************************************************)
\* s.replace(/[_\s]/g, "")
RemoveSeparators(s) ==
  Flatten([i \in 1..Len(s) |-> IF s[i] = "_" \/ IsSpace(s[i]) THEN <<>> ELSE <<s[i]>>])

\* s.split("_")
SplitUnderscore(s) ==
  LET RECURSIVE Go(_, _)
      Go(i, cur) ==
        IF i > Len(s) THEN <<cur>>
        ELSE IF s[i] = "_" THEN <<cur>> \o Go(i + 1, <<>>)
        ELSE Go(i + 1, Append(cur, s[i]))
  IN Go(1, <<>>)

MinSynonymLength == 3

ThesaurusLimit == 10

WordNetLimit == 15

\* syn.toLowerCase().replace(/[_\s]/g, "") for every synonym of the package
CleanSynonyms(raw) == [i \in 1..Len(raw) |-> RemoveSeparators(toLowerCase(raw[i]))]

\* synonym.toLowerCase().split("_") for every synonym of the synsets
SplitSynonyms(raw) == Flatten([i \in 1..Len(raw) |-> SplitUnderscore(toLowerCase(raw[i]))])

\* The filter of both tiers: not the word itself, at least 3 characters
KeepSynonyms(candidates, word) ==
  Flatten([i \in 1..Len(candidates) |->
    IF candidates[i] # word /\ Len(candidates[i]) >= MinSynonymLength
    THEN <<candidates[i]>> ELSE <<>>])

\* A tier 1 list that is not cut to its first 10 entries
ThesaurusListUncut(synResult, word) ==
  SetOrder(KeepSynonyms(CleanSynonyms(Flatten(synResult)), word))

\* Tier 1: the synonyms of the package's answer synResult, cleaned, without
\* the word itself, without short strings and without duplicates, at most 10
ThesaurusList(synResult, word) ==
  Slice0(SetOrder(KeepSynonyms(CleanSynonyms(Flatten(synResult)), word)),
         ThesaurusLimit)

\* Tier 2: the parts of the synonyms of the synsets WordNet calls back with,
\* without the word itself, without short strings and without duplicates,
\* at most 15
WordNetList(synsets, word) ==
  Slice0(SetOrder(KeepSynonyms(SplitSynonyms(Flatten(synsets)), word)),
         WordNetLimit)

\* Tier 1 for what the `synonyms` package gives for the word
ThesaurusSynonyms(word) == ThesaurusList(synonymsLib(word), word)

\* Tier 2 for the synsets WordNet has for the word
WordNetSynonyms(word) == WordNetList(wordnetLookup(word), word)

\* Word starts of a segmenter that opens a word only at an upper-case letter
\* that follows a character which is not one
WordStartsAfterNonUpper(name) ==
  SelectSeq([i \in 1..Len(name) |-> i],
            LAMBDA i : i = 1 \/ (/\ IndexOfChar(name[i], UpperLetters) # 0
                                 /\ IndexOfChar(name[i - 1], UpperLetters) = 0))

\* A raw score that counts only a match at a word boundary
SubstringMatchRawBoundaryOnly(iconName, idx) ==
  IF idx = 0 THEN 0
  ELSE IF idx = 1 \/ iconName[idx] = toUpperCaseChar(iconName[idx]) THEN 250
  ELSE 0

(***************************************************************************)
(* Substring matching                                                      *)
(***************************************************************************)
\* The positions at which splitPascalCase starts a word: the loop closes the
\* current word at a character equal to its upper-case form when the current
\* word is not empty, which it is from the second character on
WordStarts(name) ==
  SelectSeq([i \in 1..Len(name) |-> i],
            LAMBDA i : i = 1 \/ name[i] = toUpperCaseChar(name[i]))

\* The words that start at the given positions
WordsFrom(name, starts) ==
  Tuple([k \in 1..Len(starts) |->
    SubSeq(name, starts[k],
           IF k < Len(starts) THEN starts[k + 1] - 1 ELSE Len(name))])

\* splitPascalCase: the words of the name, each from its start to the
\* character before the next start
splitPascalCase(name) == WordsFrom(name, WordStarts(name))

\* words.map(w => w.toLowerCase())
LowerWords(words) == [i \in 1..Len(words) |-> toLowerCase(words[i])]

containsPascalWord(iconName, pattern) ==
  Includes(LowerWords(splitPascalCase(iconName)), toLowerCase(pattern))

ExactWordRaw == 350

WordBoundaryRaw == 250

EmbeddedRaw == 150

\* isWordBoundary for a match that starts at the idx-th character of the name
IsWordBoundary(iconName, idx) ==
  LET beforeChar == IF idx > 1 THEN iconName[idx - 1] ELSE ""
      matchChar == iconName[idx]
  IN \/ idx = 1
     \/ (beforeChar = toLowerCaseChar(beforeChar) /\ matchChar = toUpperCaseChar(matchChar))
     \/ (toUpperCaseChar(beforeChar) = beforeChar /\ IndexOfChar(beforeChar, UpperLetters) # 0)

\* The raw score of a substring match found at idx (0: not found)
SubstringMatchRaw(iconName, idx) ==
  IF idx = 0 THEN 0
  ELSE IF IsWordBoundary(iconName, idx) THEN WordBoundaryRaw
  ELSE EmbeddedRaw

\* A raw score that knows no exact word match
SubstringRawScoreNoExactWord(iconName, query) ==
  SubstringMatchRaw(iconName, StringIndexOf(toLowerCase(iconName), query))

\* The raw score of one query word against an icon name (0 when the word
\* does not occur in it)
SubstringRawScore(iconName, query) ==
  IF Includes(LowerWords(splitPascalCase(iconName)), query) THEN ExactWordRaw
  ELSE SubstringMatchRaw(iconName, StringIndexOf(toLowerCase(iconName), query))

\* getSubstringMatchScore: the best raw score over the query words
getSubstringMatchScore(iconName, queryWords) ==
  FoldLeft(LAMBDA bestScore, word : Max2(bestScore, SubstringRawScore(iconName, word)),
           0, queryWords)

(***************************************************************************)
(* Layer scores.  iconLayerScores is the Map of searchIcons, kept as the   *)
(* sequence of its entries in insertion order.  Scores are millipoints.    *)
(***************************************************************************)
Points == 10 * 10 * 10

ZeroScores(iconName) ==
  [name |-> iconName, substring |-> 0, fuzzy |-> 0, semantic |-> 0, visual |-> 0,
   synonym |-> 0]

HasScores(scores, iconName) == \E i \in 1..Len(scores) : scores[i].name = iconName

\* getLayerScores: the entry of the icon, created with zeros when missing
getLayerScores(scores, iconName) ==
  IF HasScores(scores, iconName) THEN scores ELSE Append(scores, ZeroScores(iconName))

\* A contribution that is added to the layer score instead of replacing a
\* lower one
ApplyHitAdding(scores, hit) ==
  LET s == getLayerScores(scores, hit.name)
      i == CHOOSE k \in 1..Len(s) : s[k].name = hit.name
  IN [s EXCEPT ![i] = [@ EXCEPT ![hit.layer] = @ + hit.value]]

\* One `scores.<layer> = Math.max(scores.<layer>, value)` on the icon's entry
ApplyHit(scores, hit) ==
  LET s == getLayerScores(scores, hit.name)
      i == CHOOSE k \in 1..Len(s) : s[k].name = hit.name
  IN [s EXCEPT ![i] = [@ EXCEPT ![hit.layer] = Max2(@, hit.value)]]

\* The hits applied in order
ApplyHits(scores, hits) == FoldLeft(ApplyHit, scores, hits)

Hit(iconName, layer, value) == [name |-> iconName, layer |-> layer, value |-> value]

\* query.toLowerCase().trim()
QueryLower(query) == trim(toLowerCase(query))

\* .filter(w => w.length > 0)
NonEmpty(pieces) ==
  Flatten([i \in 1..Len(pieces) |-> IF Len(pieces[i]) > 0 THEN <<pieces[i]>> ELSE <<>>])

\* queryLower.split(/\s+/).filter(w => w.length > 0)
QueryWords(query) == NonEmpty(splitWhitespace(QueryLower(query)))

ExactWordPoints == 100

PartialPoints == 15

\* LAYER 0 for one item: 100 points for an exact word match, 15 for any other
SubstringHit(iconName, rawScore) ==
  IF rawScore > 0
  THEN << Hit(iconName, "substring",
              IF rawScore >= ExactWordRaw THEN ExactWordPoints * Points
              ELSE PartialPoints * Points) >>
  ELSE <<>>

\* LAYER 0: substring matching
SubstringHits(queryWords) ==
  Flatten([i \in 1..Len(iconSearchItems) |->
    SubstringHit(iconSearchItems[i].name,
                 getSubstringMatchScore(iconSearchItems[i].name, queryWords))])

(***************************************************************************)
(* Fuse.js (library).  A Bitap search finds the pattern in a text with the *)
(* fewest errors (substituted, inserted or deleted characters); its score  *)
(* is errors / pattern length, plus, unless ignoreLocation is set,         *)
(* match position / distance.  A text matches when the score is at most    *)
(* the threshold.  Patterns here are shorter than Fuse's 32-character      *)
(* chunk, and minMatchCharLength is modelled as a minimum pattern length.  *)
(***************************************************************************)
\* The entry that follows the entries cur of the row after prev: the least of
\* a substitution, a deletion and an insertion
NextEntry(prev, cur, c, text) ==
  Min2(prev[Len(cur)] + (IF text[Len(cur)] = c THEN 0 ELSE 1),
       Min2(prev[Len(cur) + 1] + 1, cur[Len(cur)] + 1))

\* One row of the edit-distance table: prev is the row of the pattern prefix
\* one character shorter, c the pattern character, text the text
NextRow(prev, c, text) ==
  LET RECURSIVE Go(_)
      Go(cur) ==
        IF Len(cur) = Len(prev) THEN cur
        ELSE Go(Append(cur, NextEntry(prev, cur, c, text)))
  IN Go(<<prev[1] + 1>>)

\* The row of the whole pattern, from the row of the empty pattern
LastRow(pattern, text, first) ==
  FoldLeft(LAMBDA prev, c : NextRow(prev, c, text), first, pattern)

\* The least entry of a row
MinOfRow(row) == FoldLeft(Min2, row[1], row)

\* Fewest errors with which the pattern matches a prefix of the text
AnchoredErrors(pattern, text) ==
  MinOfRow(LastRow(pattern, text, [j \in 1..(Len(text) + 1) |-> j - 1]))

\* Fewest errors with which the pattern matches anywhere in the text
BitapErrors(pattern, text) ==
  MinOfRow(LastRow(pattern, text, [j \in 1..(Len(text) + 1) |-> 0]))

NoMatch == 0 - 1

\* The errors of the pattern matched at each position of the text
LocatedErrors(pattern, text) ==
  Tuple([l \in 1..Len(text) |-> AnchoredErrors(pattern, SubSeq(text, l, Len(text)))])

\* The least errors * distance + position * n over the positions with fewer
\* than n errors, or NoMatch
LeastCost(errors, n, distance) ==
  LET Cost(l) == errors[l] * distance + (l - 1) * n
      locs == {l \in 1..Len(errors) : errors[l] < n}
      best == CHOOSE l \in locs : \A m \in locs : Cost(l) <= Cost(m)
  IN IF locs = {} THEN NoMatch ELSE Cost(best)

\* The least errors * distance + position * length over the positions where
\* the pattern matches with fewer errors than it has characters, or NoMatch
BitapLocatedCost(pattern, text, distance) ==
  LeastCost(LocatedErrors(pattern, text), Len(pattern), distance)

\* Every word a query of the model can contain
AllQueryWords == SetOrder(Flatten([q \in 1..Len(SearchedQueries) |-> QueryWords(SearchedQueries[q])]))

\* Every synonym getSynonyms can return for one of those words
SynonymsOfWords(words) ==
  Flatten([w \in 1..Len(words) |->
    ThesaurusSynonyms(words[w]) \o WordNetSynonyms(words[w])])

AllSynonyms == SetOrder(SynonymsOfWords(AllQueryWords))

AllFragments ==
  SetOrder(Flatten([k \in 1..Len(semanticIconMapping) |-> semanticIconMapping[k].patterns]))

\* Every pattern the icon Fuse is searched for
IconPatterns ==
  SetOrder(Tuple([q \in 1..Len(SearchedQueries) |-> QueryLower(SearchedQueries[q])])
           \o AllFragments \o AllSynonyms)

\* The row of a key in a table of rows by key
RowOf(table, key) == table.rows[IndexOf(table.keys, key)]

\* The Bitap error counts of every pattern against both keys of every item
KeyErrors(patterns, items) ==
  [keys |-> patterns,
   rows |-> Tuple([p \in 1..Len(patterns) |->
              Tuple([i \in 1..Len(items) |->
                [baseName |-> BitapErrors(toLowerCase(patterns[p]),
                                          toLowerCase(items[i].baseName)),
                 name |-> BitapErrors(toLowerCase(patterns[p]),
                                      toLowerCase(items[i].name))]])])]

\* The index of the icon Fuse: the error counts of the catalog, computed once
\* (they do not depend on the threshold)
IconBitapErrors == KeyErrors(IconPatterns, iconSearchItems)

IconErrors(pattern, i) == RowOf(IconBitapErrors, pattern)[i]

SemanticFuseDistance == 50

TagFuseDistance == 100

\* The located cost of every word against every text of a string collection
LocatedCosts(words, texts, distance) ==
  [keys |-> words,
   rows |-> Tuple([w \in 1..Len(words) |->
              Tuple([i \in 1..Len(texts) |->
                BitapLocatedCost(toLowerCase(words[w]), toLowerCase(texts[i]),
                                 distance)])])]

SemanticKeyCosts == LocatedCosts(AllQueryWords, semanticKeys, SemanticFuseDistance)

SemanticKeyCost(word, i) == RowOf(SemanticKeyCosts, word)[i]

TagCosts == LocatedCosts(AllQueryWords, TAG_DICTIONARY, TagFuseDistance)

TagCost(word, i) == RowOf(TagCosts, word)[i]

\* BitapSearch.searchIn with ignoreLocation: true, given the fewest errors e of
\* the pattern in the text.  The score in thousandths, or NoMatch.  Equal
\* strings score 0; any other match scores at least 0.001.
BitapScoreAnywhere(pattern, text, e, threshold, minMatchCharLength) ==
  LET n == Len(pattern)
  IN IF toLowerCase(pattern) = toLowerCase(text) THEN 0
     ELSE IF n < minMatchCharLength \/ n = 0 THEN NoMatch
     ELSE IF e < n /\ e * 1000 <= threshold * n
          THEN Max2(1, (e * 1000) \div n)
     ELSE NoMatch

\* BitapSearch.searchIn with a location (expected location 0), given the
\* least cost of a match: the score is errors / length + position / distance
BitapScoreLocated(pattern, text, cost, threshold, distance, minMatchCharLength) ==
  LET n == Len(pattern)
  IN IF toLowerCase(pattern) = toLowerCase(text) THEN 0
     ELSE IF n < minMatchCharLength \/ n = 0 \/ cost = NoMatch THEN NoMatch
     ELSE IF cost * 1000 <= threshold * n * distance
          THEN Max2(1, (cost * 1000) \div (n * distance))
     ELSE NoMatch

\* floor of the square root of x, for 0 <= x <= 1000000
IsqrtIn(x, lo, hi) == CHOOSE r \in lo..hi : r * r <= x /\ (r + 1) * (r + 1) > x

\* floor(sqrt(x)) \div 32 is the floor of the square root of x \div 1024
Isqrt(x) ==
  IsqrtIn(x, 32 * IsqrtIn(x \div 1024, 0, 31), 32 * IsqrtIn(x \div 1024, 0, 31) + 31)

\* Fuse's computeScore for a record with two keys of weight 1/2 each: the
\* product of score^(1/2) over the keys that matched (a score of 0 counts as
\* Number.EPSILON, which makes the product vanish)
computeScore2(a, b) ==
  Isqrt((IF a = NoMatch THEN 1000 ELSE a) * (IF b = NoMatch THEN 1000 ELSE b))

\* The order of Fuse's results: by score, then by index in the collection
FuseBefore(x, y) == x.score < y.score \/ (x.score = y.score /\ x.idx < y.idx)

\* Fuse's sort of its results
FuseSort(matches) == SortBy(FuseBefore, matches)

\* matches.slice(0, limit) when limit > -1 (Fuse ignores a negative limit)
FuseLimit(matches, limit) ==
  IF limit > -1 THEN SubSeq(matches, 1, Min2(limit, Len(matches))) ELSE matches

IconFuseMinMatchCharLength == 2

\* The result for the i-th record given the scores of its two keys: none when
\* neither key matched
KeysMatch(i, baseNameScore, nameScore) ==
  IF baseNameScore = NoMatch /\ nameScore = NoMatch THEN <<>>
  ELSE << [idx |-> i, score |-> computeScore2(baseNameScore, nameScore)] >>

\* The result for catalog item i given the error counts of its two keys
IconMatch(i, pattern, item, errors, threshold) ==
  KeysMatch(i,
    BitapScoreAnywhere(pattern, item.baseName, errors.baseName, threshold,
                       IconFuseMinMatchCharLength),
    BitapScoreAnywhere(pattern, item.name, errors.name, threshold,
                       IconFuseMinMatchCharLength))

\* The result for the i-th string of a string collection given its score
StringMatch(i, score) ==
  IF score = NoMatch THEN <<>> ELSE << [idx |-> i, score |-> score] >>

\* createIconFuse(threshold).search(pattern, {limit}): the catalog items one
\* of whose keys (baseName, name) matches, best first, cut to the limit
iconFuseSearch(pattern, threshold, limit) ==
  FuseLimit(FuseSort(Flatten([i \in 1..Len(iconSearchItems) |->
    IconMatch(i, pattern, iconSearchItems[i], IconErrors(pattern, i), threshold)])), limit)

SemanticFuseMinMatchCharLength == 2

\* createSemanticFuse(threshold).search(word, {limit})
semanticFuseSearch(word, threshold, limit) ==
  FuseLimit(FuseSort(Flatten([i \in 1..Len(semanticKeys) |->
    StringMatch(i, BitapScoreLocated(word, semanticKeys[i], SemanticKeyCost(word, i),
                     threshold, SemanticFuseDistance,
                     SemanticFuseMinMatchCharLength))])), limit)

TagFuseMinMatchCharLength == 1

\* new Fuse(TAG_DICTIONARY, {threshold, includeScore}).search(word, {limit})
tagFuseSearch(word, threshold, limit) ==
  FuseLimit(FuseSort(Flatten([i \in 1..Len(TAG_DICTIONARY) |->
    StringMatch(i, BitapScoreLocated(word, TAG_DICTIONARY[i], TagCost(word, i),
                     threshold, TagFuseDistance, TagFuseMinMatchCharLength))])), limit)

FuzzyPoints == 15

DirectResultsFactor == 3

\* for (const result of matches) { const scores = getLayerScores(result.item.name);
\* scores.<layer> = Math.max(scores.<layer>, Value(result.score)) }
MatchHits(matches, layer, Value(_)) ==
  [i \in 1..Len(matches) |->
    Hit(iconSearchItems[matches[i].idx].name, layer, Value(matches[i].score))]

\* A fuzzy layer that takes Fuse's score, a distance, for a similarity
FuzzyHitsByDistance(queryLower, maxResults, threshold) ==
  MatchHits(iconFuseSearch(queryLower, threshold, maxResults * DirectResultsFactor),
            "fuzzy", LAMBDA score : score * FuzzyPoints)

\* LAYER 1: fuzzy matching of the whole query against the icon names
FuzzyHits(queryLower, maxResults, threshold) ==
  MatchHits(iconFuseSearch(queryLower, threshold, maxResults * DirectResultsFactor),
            "fuzzy", LAMBDA score : (1000 - score) * FuzzyPoints)

\* semanticIconMapping[word]: the fragment list when the word is one of the
\* mapping's own keys
IsSemanticKey(word) == Includes(semanticKeys, word)

PatternsOf(word) == semanticIconMapping[IndexOf(semanticKeys, word)].patterns

\* `semanticIconMapping[word]` is truthy for an own key, and also for a
\* property inherited from Object.prototype, whose value is no array
LookupIsTruthy(word) == IsSemanticKey(word) \/ word \in ObjectPrototypeKeys

\* Using the looked-up value as an array (join, for...of) throws a TypeError
\* unless the word is an own key
LookupThrows(word) == LookupIsTruthy(word) /\ ~IsSemanticKey(word)

SemanticDirectPoints == 25

SemanticFuzzyPoints == 18

SemanticDirectLimit == 10

SemanticFuzzyLimit == 8

SemanticKeyLimit == 5

\* if (!containsPascalWord(result.item.name, pattern)) continue;
WithPascalWord(matches, pattern) ==
  Flatten([i \in 1..Len(matches) |->
    IF containsPascalWord(iconSearchItems[matches[i].idx].name, pattern)
    THEN << matches[i] >> ELSE <<>>])

\* The Fuse matches of a fragment, whether or not the name has it as a word
FragmentMatchesAnywhere(pattern, threshold, limit) ==
  iconFuseSearch(pattern, threshold, limit)

\* The icons a fragment reaches: its Fuse matches whose name has the fragment
\* as a complete PascalCase word
FragmentMatches(pattern, threshold, limit) ==
  WithPascalWord(iconFuseSearch(pattern, threshold, limit), pattern)

\* for (const pattern of patterns) { ... }: the semantic hits of the fragments
FragmentHits(patterns, threshold, limit, Value(_)) ==
  Flatten([k \in 1..Len(patterns) |->
    MatchHits(FragmentMatches(patterns[k], threshold, limit), "semantic", Value)])

\* 2a: direct semantic key match of one word
SemanticDirectHits(word, threshold) ==
  IF ~IsSemanticKey(word) THEN <<>>
  ELSE FragmentHits(PatternsOf(word), threshold, SemanticDirectLimit,
                    LAMBDA score : SemanticDirectPoints * (1000 - score))

\* for (const semanticMatch of fuzzySemanticMatches) { ... }
SemanticKeyHits(fuzzySemanticMatches, threshold) ==
  Flatten([m \in 1..Len(fuzzySemanticMatches) |->
    FragmentHits(semanticIconMapping[fuzzySemanticMatches[m].idx].patterns, threshold,
                 SemanticFuzzyLimit,
                 LAMBDA score :
                   (SemanticFuzzyPoints * (1000 - score)
                      * (1000 - fuzzySemanticMatches[m].score)) \div 1000)])

\* 2b: fuzzy semantic key match of one word
SemanticFuzzyHits(word, threshold) ==
  SemanticKeyHits(semanticFuseSearch(word, threshold, SemanticKeyLimit), threshold)

\* LAYER 2: semantic matching of every query word
SemanticHits(queryWords, threshold) ==
  Flatten([w \in 1..Len(queryWords) |->
    SemanticDirectHits(queryWords[w], threshold) \o SemanticFuzzyHits(queryWords[w], threshold)])

\* LAYER 2 throws when a query word names an inherited property
SemanticThrows(queryWords) == \E w \in 1..Len(queryWords) : LookupThrows(queryWords[w])

SynonymBridgePoints == 20

SynonymDirectPoints == 14

SynonymBridgeLimit == 8

SynonymDirectLimit == 5

\* for (const pattern of semanticIconMapping[synonym]) { ... }
BridgeHits(patterns, threshold) ==
  Flatten([k \in 1..Len(patterns) |->
    MatchHits(iconFuseSearch(patterns[k], threshold, SynonymBridgeLimit), "synonym",
              LAMBDA score : SynonymBridgePoints * (1000 - score))])

\* 3a: a synonym that is a semantic key reaches the icons of its fragments
SynonymBridgeHits(synonym, threshold) ==
  IF ~IsSemanticKey(synonym) THEN <<>>
  ELSE BridgeHits(PatternsOf(synonym), threshold)

\* 3b: a synonym matched directly against the icon names
SynonymDirectHits(synonym, threshold) ==
  MatchHits(iconFuseSearch(synonym, threshold, SynonymDirectLimit), "synonym",
            LAMBDA score : SynonymDirectPoints * (1000 - score))

\* LAYER 3 for the synonyms of one query word
SynonymHits(synonyms, threshold) ==
  Flatten([s \in 1..Len(synonyms) |->
    SynonymBridgeHits(synonyms[s], threshold) \o SynonymDirectHits(synonyms[s], threshold)])

SynonymThrows(synonyms) == \E s \in 1..Len(synonyms) : LookupThrows(synonyms[s])

VisualDirectPoints == 25

VisualFuzzyPoints == 18

TagFuseLimit == 3

\* The Regular names only of the base names that carry the tag
TaggedIconNamesRegularOnly(tagIndex) ==
  Flatten([b \in 1..Len(ICON_VISUAL_TAGS) |->
    IF Includes(ICON_VISUAL_TAGS[b].tags, tagIndex)
       /\ Includes(FLUENT_ICON_NAMES, ICON_VISUAL_TAGS[b].baseName \o Regular)
    THEN <<ICON_VISUAL_TAGS[b].baseName \o Regular>>
    ELSE <<>>])

\* The names baseName + "Regular" and baseName + "Filled" of the base names
\* that carry the tag, whether or not the catalog has them
TaggedIconNamesUnchecked(tagIndex) ==
  Flatten([b \in 1..Len(ICON_VISUAL_TAGS) |->
    IF Includes(ICON_VISUAL_TAGS[b].tags, tagIndex)
    THEN << ICON_VISUAL_TAGS[b].baseName \o Regular, ICON_VISUAL_TAGS[b].baseName \o Filled >>
    ELSE <<>>])

\* The catalog names baseName + "Regular" and baseName + "Filled" of the base
\* names that carry the tag, in the order of ICON_VISUAL_TAGS
TaggedIconNames(tagIndex) ==
  Flatten([b \in 1..Len(ICON_VISUAL_TAGS) |->
    IF Includes(ICON_VISUAL_TAGS[b].tags, tagIndex)
    THEN Flatten([v \in 1..2 |->
           LET iconName == ICON_VISUAL_TAGS[b].baseName \o <<Regular, Filled>>[v]
           IN IF Includes(FLUENT_ICON_NAMES, iconName) THEN <<iconName>> ELSE <<>>])
    ELSE <<>>])

\* scores.visual = Math.max(scores.visual, value) for the icons of a tag
TagHits(iconNames, value) ==
  [i \in 1..Len(iconNames) |-> Hit(iconNames[i], "visual", value)]

\* 4a: the word is a tag of the dictionary
VisualDirectHits(word) ==
  IF ~Includes(TAG_DICTIONARY, word) THEN <<>>
  ELSE TagHits(TaggedIconNames(IndexOf(TAG_DICTIONARY, word)), VisualDirectPoints * Points)

\* for (const tagMatch of tagFuseResults) { ... }
TagMatchHits(tagFuseResults) ==
  Flatten([m \in 1..Len(tagFuseResults) |->
    TagHits(TaggedIconNames(tagFuseResults[m].idx),
            VisualFuzzyPoints * (1000 - tagFuseResults[m].score))])

\* 4b: the word matched approximately against the tags
VisualFuzzyHits(word, threshold) ==
  TagMatchHits(tagFuseSearch(word, threshold, TagFuseLimit))

\* LAYER 4: visual tag matching of every query word
VisualHits(queryWords, threshold) ==
  Flatten([w \in 1..Len(queryWords) |->
    VisualDirectHits(queryWords[w]) \o VisualFuzzyHits(queryWords[w], threshold)])

MaxTotal == 100

\* A total without the cap
TotalScoreUnclamped(layers) ==
  layers.substring + layers.fuzzy + layers.semantic + layers.visual + layers.synonym

\* The total of one entry: the sum of its five layers, capped at 100
TotalScore(layers) ==
  Min2(MaxTotal * Points,
       layers.substring + layers.fuzzy + layers.semantic + layers.visual + layers.synonym)

\* finalScores: the entries with a positive total, in insertion order
FinalScores(scores) ==
  Flatten([i \in 1..Len(scores) |->
    IF TotalScore(scores[i]) > 0
    THEN << [name |-> scores[i].name, total |-> TotalScore(scores[i]), layers |-> scores[i]] >>
    ELSE <<>>])

IsRegular(iconName) == EndsWith(iconName, Regular)

\* A comparator that sorts ascending
CompareFinalAscending(a, b) == a.total - b.total

\* A comparator without the preference for Regular
CompareFinalNoTieBreak(a, b) == b.total - a.total

\* The comparator of finalScores.sort: negative when a sorts before b
CompareFinal(a, b) ==
  IF b.total # a.total THEN b.total - a.total
  ELSE (IF IsRegular(b.name) THEN 1 ELSE 0) - (IF IsRegular(a.name) THEN 1 ELSE 0)

\* Array.prototype.sort: a stable sort by the comparator
SortFinal(finalScores) == SortBy(LAMBDA a, b : CompareFinal(a, b) < 0, finalScores)

\* The whole sorted list, without the slice
TopResultsUncut(scores, maxResults) == SortFinal(FinalScores(scores))

\* finalScores.sort(...).slice(0, maxResults)
TopResults(scores, maxResults) == Slice0(SortFinal(FinalScores(scores)), maxResults)

\* Math.round of a non-negative number of millipoints, in points
Round(x) == (x + 500) \div 1000

\* A primary layer that, among equal contributions, is the last one
PrimaryLayerLastOfTies(layers) ==
  LET contributions ==
        << [layer |-> "substring", score |-> layers.substring],
           [layer |-> "fuzzy", score |-> layers.fuzzy],
           [layer |-> "semantic", score |-> layers.semantic],
           [layer |-> "visual", score |-> layers.visual],
           [layer |-> "wordnet", score |-> layers.synonym] >>
  IN IF layers.substring >= ExactWordPoints * Points THEN "exact"
     ELSE FoldLeft(LAMBDA a, b : IF a.score > b.score THEN a ELSE b,
                   contributions[1], Tail(contributions)).layer

\* The primary layer of a result
PrimaryLayer(layers) ==
  LET contributions ==
        << [layer |-> "substring", score |-> layers.substring],
           [layer |-> "fuzzy", score |-> layers.fuzzy],
           [layer |-> "semantic", score |-> layers.semantic],
           [layer |-> "visual", score |-> layers.visual],
           [layer |-> "wordnet", score |-> layers.synonym] >>
  IN IF layers.substring >= ExactWordPoints * Points THEN "exact"
     ELSE FoldLeft(LAMBDA a, b : IF a.score >= b.score THEN a ELSE b,
                   contributions[1], Tail(contributions)).layer

\* One IconResult
ToIconResult(entry) ==
  [name |-> entry.name,
   category |-> IF parseIconName(entry.name).variant # <<>>
                THEN parseIconName(entry.name).variant ELSE <<"I","c","o","n">>,
   score |-> Round(entry.total),
   scoreLayer |-> PrimaryLayer(entry.layers),
   scoreBreakdown |->
     [substring |-> Round(entry.layers.substring),
      fuzzy |-> Round(entry.layers.fuzzy),
      semantic |-> Round(entry.layers.semantic),
      visual |-> Round(entry.layers.visual),
      synonym |-> Round(entry.layers.synonym)]]

\* The IconResult list searchIcons returns
IconResults(ranked) == Tuple([i \in 1..Len(ranked) |-> ToIconResult(ranked[i])])

\* Layers 0 to 2, which searchIcons runs before its first await
SyncLayers(query, maxResults, threshold) ==
  ApplyHits(ApplyHits(ApplyHits(<<>>,
      SubstringHits(QueryWords(query))),
      FuzzyHits(QueryLower(query), maxResults, threshold)),
      SemanticHits(QueryWords(query), threshold))


(***************************************************************************)
(* The server as a state machine.  A process is one invocation of the     *)
(* search-icons tool handler (server.ts), which awaits searchIcons, which  *)
(* awaits getSynonyms once per query word.  The handlers of concurrent     *)
(* requests share the module-level synonymCache and interleave at awaits.  *)
(* splitName and splitWords are the argument and the return value of       *)
(* splitPascalCase taken alone, lookupArgs the word and the answers of the *)
(* two synonym providers for getSynonyms taken alone.  The remaining       *)
(* variables are those of the HTTP server of main.ts, which hands the     *)
(* messages of a session to its transport.                                *)
(***************************************************************************)
VARIABLES synonymCache, env, calls, pc, call, cacheAtStart, wordIdx,
          iconLayerScores, promise, topResults, results, response,
          splitName, splitWords, lookupArgs,
          limiter, totalHits, transports, connections, pendingPost, lastResponse,
          handlerInput, toolResultText, parsedContent,
          iconArgs, sizedIconName, strippedName

vars == << synonymCache, env, calls, pc, call, cacheAtStart, wordIdx,
           iconLayerScores, promise, topResults, results, response,
           splitName, splitWords, lookupArgs,
           limiter, totalHits, transports, connections, pendingPost, lastResponse,
           handlerInput, toolResultText, parsedContent,
           iconArgs, sizedIconName, strippedName >>

\* The variables of the functions taken alone, which the server leaves as
\* they are
asideVars == << splitName, splitWords, lookupArgs,
               limiter, totalHits, transports, connections, pendingPost, lastResponse,
               handlerInput, toolResultText, parsedContent,
               iconArgs, sizedIconName, strippedName >>

\* The variables of the HTTP server of main.ts
httpVars == << limiter, totalHits, transports, connections, pendingPost, lastResponse >>

\* The variables of the text fallback of the tool result and of the
\* detail panel of the UI
uiVars == << handlerInput, toolResultText, parsedContent,
            iconArgs, sizedIconName, strippedName >>

\* The variables of the server
serverVars == << synonymCache, env, calls, pc, call, cacheAtStart, wordIdx,
                 iconLayerScores, promise, topResults, results, response >>

Procs == {1, 2}

\* How the two synonym providers behave in one run of the server
Environments == {"ok", "synonymsLibThrows", "wordnetThrows", "wordnetSilent"}

\* The number of tool calls one behaviour of the sequential server makes
MaxCalls == 2

\* The number of tool calls one behaviour of the concurrent server makes
MaxConcurrentCalls == 3

\* The arguments the zod schema of the tool lets through: any string of at
\* most 500 characters and any two numbers
CallOf(query, maxResults, threshold) ==
  [query |-> query, maxResults |-> maxResults, threshold |-> threshold]

CallList ==
  Flatten([q \in 1..Len(QueryList) |->
    Flatten([m \in 1..Len(MaxResultsList) |->
      Tuple([t \in 1..Len(ThresholdList) |->
        CallOf(QueryList[q], MaxResultsList[m], ThresholdList[t])])])])

NoCall == CallOf(<<>>, 0, 0)

NoPromise == [state |-> "none", word |-> <<>>, value |-> <<>>]

NoResponse == [isError |-> FALSE, text |-> "", totalCount |-> 0]

EmptyCache == [w \in {} |-> <<>>]

\* The session ids the SSE transports of one behaviour draw: each transport
\* has a fresh one
MaxSessions == 2

SessionIds == 1..MaxSessions

NoSession == 0

\* No request answered yet
NoHttpResponse == [method |-> "none", sessionId |-> NoSession, status |-> 0,
                   transport |-> NoSession]

\* No tool result formatted
NoHandlerInput == [query |-> <<>>, icons |-> <<>>]

\* parseToolResult returning null
NoContent == [query |-> <<>>, icons |-> <<>>, totalCount |-> -1]

\* No icon selected
NoIconArgs == [unsizedName |-> <<>>, size |-> <<>>]

\* The UI before a tool result arrives and before an icon is selected
UiIdle ==
  /\ handlerInput = NoHandlerInput
  /\ toolResultText = <<>>
  /\ parsedContent = NoContent
  /\ iconArgs = NoIconArgs
  /\ sizedIconName = <<>>
  /\ strippedName = <<>>

\* The HTTP server of main.ts before its first request
HttpIdle ==
  /\ limiter = FALSE
  /\ totalHits = 0
  /\ transports = {}
  /\ connections = [s \in SessionIds |-> "none"]
  /\ pendingPost = NoSession
  /\ lastResponse = NoHttpResponse

\* No word, and no answer of either provider
NoLookup == [word |-> <<>>, synResult |-> <<>>, synsets |-> <<>>]

\* A cache entry that is an empty placeholder instead of the list
CacheEntryEmpty(limited) == <<>>

\* The value synonymCache.set(word, limited) stores: the list that is resolved
CacheEntry(limited) == limited

\* synonymCache.set(word, limited)
CacheSet(cache, word, limited) == (word :> CacheEntry(limited)) @@ cache

\* getSynonyms(word) after a cache miss, given what tier 1 found: it caches and
\* resolves that, or, with nothing found, calls wordnet.lookup, which throws
\* or takes the callback
LookUp(cache, environment, word, limited) ==
  IF Len(limited) > 0
  THEN [cache |-> CacheSet(cache, word, limited),
        promise |-> [state |-> "resolved", word |-> word, value |-> limited]]
  ELSE IF environment = "wordnetThrows"
  THEN [cache |-> cache,
        promise |-> [state |-> "rejected", word |-> word, value |-> <<>>]]
  ELSE [cache |-> cache,
        promise |-> [state |-> "pending", word |-> word, value |-> <<>>]]

\* A getSynonyms that looks the word up whether or not the cache has it
getSynonymsUncached(cache, environment, word) ==
  LookUp(cache, environment, word,
         IF environment = "synonymsLibThrows" THEN <<>> ELSE ThesaurusSynonyms(word))

\* A getSynonyms that enters an empty list for the word before it looks the
\* word up
getSynonymsMarkingLookup(cache, environment, word) ==
  IF word \in DOMAIN cache
  THEN [cache |-> cache,
        promise |-> [state |-> "resolved", word |-> word, value |-> cache[word]]]
  ELSE LookUp((word :> <<>>) @@ cache, environment, word,
              IF environment = "synonymsLibThrows" THEN <<>> ELSE ThesaurusSynonyms(word))

\* getSynonyms(word) up to its return: the cache after it and the promise
\* it returns
getSynonyms(cache, environment, word) ==
  IF word \in DOMAIN cache
  THEN [cache |-> cache,
        promise |-> [state |-> "resolved", word |-> word, value |-> cache[word]]]
  ELSE LookUp(cache, environment, word,
              IF environment = "synonymsLibThrows" THEN <<>> ELSE ThesaurusSynonyms(word))

\* Layers 0 to 2 of every call of the model, computed once
SyncLayersOfCalls ==
  Tuple([c \in 1..Len(CallList) |->
    IF SemanticThrows(QueryWords(CallList[c].query)) THEN <<>>
    ELSE SyncLayers(CallList[c].query, CallList[c].maxResults, CallList[c].threshold)])

SyncLayersOf(c) == SyncLayersOfCalls[IndexOf(CallList, c)]

\* LAYER 4 and the final ranking, which searchIcons runs after its last await
FinishLayers(scores, c) == ApplyHits(scores, VisualHits(QueryWords(c.query), c.threshold))

Init ==
  /\ synonymCache = EmptyCache
  /\ env \in Environments
  /\ calls = 0
  /\ pc = [p \in Procs |-> "idle"]
  /\ call = [p \in Procs |-> NoCall]
  /\ cacheAtStart = [p \in Procs |-> EmptyCache]
  /\ wordIdx = [p \in Procs |-> 0]
  /\ iconLayerScores = [p \in Procs |-> <<>>]
  /\ promise = [p \in Procs |-> NoPromise]
  /\ topResults = [p \in Procs |-> <<>>]
  /\ results = [p \in Procs |-> <<>>]
  /\ response = [p \in Procs |-> NoResponse]
  /\ splitName = <<>>
  /\ splitWords = <<>>
  /\ lookupArgs = NoLookup
  /\ HttpIdle
  /\ UiIdle

\* searchIcons returns the ranking of the final scores
Returned(cache, scores, maxResults) ==
  [pc |-> "returned", wordIdx |-> 0, scores |-> scores, cache |-> cache,
   promise |-> NoPromise, topResults |-> TopResults(scores, maxResults)]

\* searchIcons awaits the promise getSynonyms returned for its k-th word
Awaiting(got, scores, k) ==
  [pc |-> "awaitSynonyms", wordIdx |-> k, scores |-> scores, cache |-> got.cache,
   promise |-> got.promise, topResults |-> <<>>]

\* A LAYER 3 loop that looks up the first query word only
ContinueFirstWordOnly(cache, environment, c, scores, k) ==
  IF k > Min2(1, Len(QueryWords(c.query)))
  THEN Returned(cache, FinishLayers(scores, c), c.maxResults)
  ELSE Awaiting(getSynonyms(cache, environment, QueryWords(c.query)[k]), scores, k)

\* searchIcons from the head of its LAYER 3 loop at the k-th query word to
\* its next await or its return: it calls getSynonyms and awaits the promise,
\* or, the words exhausted, runs LAYER 4 and the final ranking
Continue(cache, environment, c, scores, k) ==
  IF k > Len(QueryWords(c.query))
  THEN Returned(cache, FinishLayers(scores, c), c.maxResults)
  ELSE Awaiting(getSynonyms(cache, environment, QueryWords(c.query)[k]), scores, k)

\* searchIcons throws: the promise it returned is rejected
Thrown(cache, settled) ==
  [pc |-> "rejected", wordIdx |-> 0, scores |-> <<>>, cache |-> cache,
   promise |-> settled, topResults |-> <<>>]

\* One step of searchIcons in process p, with the given outcome
Step(p, next) ==
  /\ pc' = [pc EXCEPT ![p] = next.pc]
  /\ wordIdx' = [wordIdx EXCEPT ![p] = next.wordIdx]
  /\ iconLayerScores' = [iconLayerScores EXCEPT ![p] = next.scores]
  /\ synonymCache' = next.cache
  /\ promise' = [promise EXCEPT ![p] = next.promise]
  /\ topResults' = [topResults EXCEPT ![p] = next.topResults]
  /\ results' = [results EXCEPT ![p] = IconResults(next.topResults)]

\* The tool handler is invoked and runs searchIcons up to its first await:
\* the normalisation of the query and LAYERS 0 to 2
Start(p, query, maxResults, threshold) ==
  /\ pc[p] \in {"idle", "responded"}
  /\ calls' = calls + 1
  /\ call' = [call EXCEPT ![p] = CallOf(query, maxResults, threshold)]
  /\ cacheAtStart' = [cacheAtStart EXCEPT ![p] = synonymCache]
  /\ response' = [response EXCEPT ![p] = NoResponse]
  /\ Step(p, IF SemanticThrows(QueryWords(query))
             THEN Thrown(synonymCache, NoPromise)
             ELSE Continue(synonymCache, env, CallOf(query, maxResults, threshold),
                           SyncLayersOf(CallOf(query, maxResults, threshold)), 1))
  /\ UNCHANGED << env, asideVars >>

\* The callback of wordnet.lookup runs: the synonyms are cached and the
\* promise of getSynonyms is resolved
WordnetCallback(p) ==
  /\ pc[p] = "awaitSynonyms"
  /\ promise[p].state = "pending"
  /\ env # "wordnetSilent"
  /\ synonymCache' = CacheSet(synonymCache, promise[p].word,
                              WordNetSynonyms(promise[p].word))
  /\ promise' = [promise EXCEPT ![p] =
                   [state |-> "resolved", word |-> promise[p].word,
                    value |-> WordNetSynonyms(promise[p].word)]]
  /\ UNCHANGED << env, calls, pc, call, cacheAtStart, wordIdx, iconLayerScores,
                  topResults, results, response, asideVars >>

\* searchIcons resumes after `await getSynonyms(word)`: LAYER 3 for the
\* synonyms of the word, then the next word or the end of the search
Resume(p) ==
  /\ pc[p] = "awaitSynonyms"
  /\ promise[p].state \in {"resolved", "rejected"}
  /\ Step(p, IF promise[p].state = "rejected" \/ SynonymThrows(promise[p].value)
             THEN Thrown(synonymCache, promise[p])
             ELSE Continue(synonymCache, env, call[p],
                           ApplyHits(iconLayerScores[p],
                                     SynonymHits(promise[p].value, call[p].threshold)),
                           wordIdx[p] + 1))
  /\ UNCHANGED << env, calls, call, cacheAtStart, response, asideVars >>

\* The handler resumes after `await searchIcons(...)` and answers the call
Respond(p) ==
  /\ pc[p] \in {"returned", "rejected"}
  /\ pc' = [pc EXCEPT ![p] = "responded"]
  /\ response' = [response EXCEPT ![p] =
       IF pc[p] = "rejected"
       THEN [isError |-> TRUE, text |-> "Error searching icons", totalCount |-> 0]
       ELSE IF Len(results[p]) = 0
       THEN [isError |-> FALSE, text |-> "No icons found", totalCount |-> 0]
       ELSE [isError |-> FALSE, text |-> "Found icons", totalCount |-> Len(results[p])]]
  /\ UNCHANGED << synonymCache, env, calls, call, cacheAtStart, wordIdx,
                  iconLayerScores, promise, topResults, results, asideVars >>

\* The server handling one request at a time
Next ==
  \/ /\ calls < MaxCalls
     /\ \E query \in Queries, maxResults \in MaxResultsValues, threshold \in Thresholds :
          Start(1, query, maxResults, threshold)
  \/ WordnetCallback(1)
  \/ Resume(1)
  \/ Respond(1)

Spec == Init /\ [][Next]_vars

\* The queries of the concurrent requests
ConcurrentQueries == {Q_beerDelete, Q_filled, Q_save}

\* The server handling two requests at a time, their handlers interleaved at
\* the awaits
NextConcurrent ==
  \/ /\ calls < MaxConcurrentCalls
     /\ \E p \in Procs, query \in ConcurrentQueries :
          Start(p, query, DefaultMaxResults, DefaultThreshold)
  \/ \E p \in Procs : WordnetCallback(p)
  \/ \E p \in Procs : Resume(p)
  \/ \E p \in Procs : Respond(p)

SpecConcurrent == Init /\ [][NextConcurrent]_vars

\* The guards of WordnetCallback(p) and of Resume(p), which is what ENABLED
\* of the two actions amounts to: past its guard each of them takes a step,
\* and the step changes the promise, pc or wordIdx
CallbackEnabled(p) ==
  pc[p] = "awaitSynonyms" /\ promise[p].state = "pending" /\ env # "wordnetSilent"

ResumeEnabled(p) ==
  pc[p] = "awaitSynonyms" /\ promise[p].state \in {"resolved", "rejected"}

\* WF_vars(WordnetCallback(p)) and WF_vars(Resume(p)), with ENABLED written out
FairCallback(p) == []<>(~CallbackEnabled(p)) \/ []<><<WordnetCallback(p)>>_vars

FairResume(p) == []<>(~ResumeEnabled(p)) \/ []<><<Resume(p)>>_vars

\* The event loop runs every callback and every continuation that is ready:
\* a callback WordNet has scheduled, a search whose awaited promise is
\* settled, a handler whose search is over
FairConcurrent ==
  \A p \in Procs :
    /\ FairCallback(p)
    /\ FairResume(p)
    /\ WF_vars(Respond(p))

\* The number of tool calls in a behaviour of two overlapping requests
MaxOverlapCalls == 2

\* The queries of two overlapping requests: their first words take a WordNet
\* lookup
OverlapQueries == {Q_filled, Q_beerDelete}

\* Two requests at a time, as in NextConcurrent
NextOverlap ==
  \/ /\ calls < MaxOverlapCalls
     /\ \E p \in Procs, query \in OverlapQueries :
          Start(p, query, DefaultMaxResults, DefaultThreshold)
  \/ \E p \in Procs : WordnetCallback(p)
  \/ \E p \in Procs : Resume(p)
  \/ \E p \in Procs : Respond(p)

SpecOverlapFair == Init /\ [][NextOverlap]_vars /\ FairConcurrent

(***************************************************************************)
(* splitPascalCase taken alone, on every name of at most MaxNameLen        *)
(* characters over an upper-case letter, lower-case letters, a digit and   *)
(* a second upper-case letter                                              *)
(***************************************************************************)
MaxNameLen == 4

NameChars == {"T", "X", "a", "b", "2"}

\* The names of exactly n characters
NamesOfLen(n) == [1..n -> NameChars]

SplitNames == UNION {NamesOfLen(n) : n \in 0..MaxNameLen}

\* The server as it is before its first request
ServerIdle ==
  /\ synonymCache = EmptyCache
  /\ env = "ok"
  /\ calls = 0
  /\ pc = [p \in Procs |-> "idle"]
  /\ call = [p \in Procs |-> NoCall]
  /\ cacheAtStart = [p \in Procs |-> EmptyCache]
  /\ wordIdx = [p \in Procs |-> 0]
  /\ iconLayerScores = [p \in Procs |-> <<>>]
  /\ promise = [p \in Procs |-> NoPromise]
  /\ topResults = [p \in Procs |-> <<>>]
  /\ results = [p \in Procs |-> <<>>]
  /\ response = [p \in Procs |-> NoResponse]

InitSplit ==
  /\ ServerIdle
  /\ splitName \in SplitNames
  /\ splitWords = <<>>
  /\ lookupArgs = NoLookup
  /\ HttpIdle
  /\ UiIdle

\* const words = splitPascalCase(name)
Split ==
  /\ splitWords' = splitPascalCase(splitName)
  /\ UNCHANGED << serverVars, uiVars, splitName, lookupArgs, httpVars >>

NextSplit == Split

SpecSplit == InitSplit /\ [][NextSplit]_vars

(***************************************************************************)
(* getSynonyms taken alone: one call on an empty cache, for a word and     *)
(* answers of the two providers drawn from bounded sets.  The call and the *)
(* WordNet callback are those of process 1.                                *)
(***************************************************************************)
\* The most synonyms an answer of a provider lists, besides the discarded ones
MaxRawSynonyms == 17

LookupWord == <<"b", "i", "g">>

\* The i-th synonym of the pool the answers draw on
PoolSynonym(i) == <<"s", "y", "n">> \o << LowerLetters[i] >>

\* The first n synonyms of the pool
PoolSynonyms(n) == [i \in 1..n |-> PoolSynonym(i)]

\* Entries tier 1 discards: the word itself, the word in capitals, and a
\* string that is too short once "_" is removed
ThesaurusExtras == << LookupWord, <<"B", "i", "g">>, <<"a", "_", "b">> >>

\* Another spelling of a synonym, which tier 1 cleans to the same string
Respell(s) == << toUpperCaseChar(s[1]) >> \o SubSeq(s, 2, 3) \o << "_" >> \o SubSeq(s, 4, Len(s))

\* Entries tier 2 discards or merges: the word itself, and a compound of the
\* first synonym of the pool and a part that is too short
WordNetExtras == << LookupWord, <<"s", "y", "n", "a", "_", "u", "p">> >>

\* The answers of the `synonyms` package: nothing, or three parts of speech
ThesaurusAnswers ==
  {<<>>} \cup {<< ThesaurusExtras, PoolSynonyms(n),
                  [i \in 1..Min2(n, 2) |-> Respell(PoolSynonym(i))] >> : n \in 0..MaxRawSynonyms}

\* The answers of WordNet: no synset, or two synsets
WordNetAnswers ==
  {<<>>} \cup {<< WordNetExtras, PoolSynonyms(n) >> : n \in 0..MaxRawSynonyms}

InitLookup ==
  /\ ServerIdle
  /\ splitName = <<>>
  /\ splitWords = <<>>
  /\ HttpIdle
  /\ UiIdle
  /\ lookupArgs \in [word : {LookupWord}, synResult : ThesaurusAnswers,
                     synsets : WordNetAnswers]

\* getSynonyms(word) on the empty cache: tier 1, then the promise it returns
GetSynonymsAlone ==
  /\ promise[1].state = "none"
  /\ \E throws \in BOOLEAN :
       LET got == LookUp(synonymCache, "ok", lookupArgs.word,
                         IF throws THEN <<>>
                         ELSE ThesaurusList(lookupArgs.synResult, lookupArgs.word))
       IN /\ synonymCache' = got.cache
          /\ promise' = [promise EXCEPT ![1] = got.promise]
          /\ env' = IF throws THEN "synonymsLibThrows" ELSE "ok"
  /\ UNCHANGED << calls, pc, call, cacheAtStart, wordIdx, iconLayerScores,
                  topResults, results, response, asideVars >>

\* The callback of wordnet.lookup for the answer of WordNet
WordnetCallbackAlone ==
  /\ promise[1].state = "pending"
  /\ synonymCache' = CacheSet(synonymCache, promise[1].word,
                              WordNetList(lookupArgs.synsets, promise[1].word))
  /\ promise' = [promise EXCEPT ![1] =
                   [state |-> "resolved", word |-> promise[1].word,
                    value |-> WordNetList(lookupArgs.synsets, promise[1].word)]]
  /\ UNCHANGED << env, calls, pc, call, cacheAtStart, wordIdx, iconLayerScores,
                  topResults, results, response, asideVars >>

NextLookup == GetSynonymsAlone \/ WordnetCallbackAlone

SpecLookup == InitLookup /\ [][NextLookup]_vars

(***************************************************************************)
(* The HTTP server (main.ts): GET /mcp opens an SSE connection with a      *)
(* transport of its own, POST /mcp/message hands a message to the          *)
(* transport of its session.  The variant of the file with                 *)
(* express-rate-limit puts a limiter in front of both routes.              *)
(***************************************************************************)
\* max: 100 requests per window
RateLimitMax == 100

\* The status codes a transport answers a message with
TransportStatuses == {202, 400, 500}

\* The session ids a POST can carry: those of the transports, and one that
\* no transport ever has
PostIds == 1..(MaxSessions + 1)

\* A Map that keeps the entry of a closed connection
TransportsKeep(map, sessionId) == map

\* transports.set(sessionId, transport)
TransportsSet(map, sessionId) == map \cup {sessionId}

\* transports.delete(sessionId)
TransportsDelete(map, sessionId) == map \ {sessionId}

\* transports.get(sessionId): the transport, named by its session id, or
\* undefined (NoSession)
TransportsGet(map, sessionId) == IF sessionId \in map THEN sessionId ELSE NoSession

\* The limiter has counted max requests in the current window
LimitReached == limiter /\ totalHits >= RateLimitMax

\* The limiter counts the request (the count is kept up to max + 1)
CountHit == totalHits' = IF limiter THEN Min2(totalHits + 1, RateLimitMax + 1) ELSE totalHits

HttpResponse(method, sessionId, status, transport) ==
  [method |-> method, sessionId |-> sessionId, status |-> status, transport |-> transport]

InitHttp ==
  /\ ServerIdle
  /\ splitName = <<>>
  /\ splitWords = <<>>
  /\ lookupArgs = NoLookup
  /\ limiter \in BOOLEAN
  /\ totalHits = 0
  /\ transports = {}
  /\ connections = [s \in SessionIds |-> "none"]
  /\ pendingPost = NoSession
  /\ lastResponse = NoHttpResponse
  /\ UiIdle

\* The limiter answers a request over the limit; the route is not reached
TooManyRequests(method, sessionId) ==
  /\ LimitReached
  /\ CountHit
  /\ lastResponse' = HttpResponse(method, sessionId, 429, NoSession)
  /\ UNCHANGED << serverVars, uiVars, splitName, splitWords, lookupArgs, limiter,
                  transports, connections, pendingPost >>

\* app.get("/mcp"): a transport with a fresh session id is entered in the
\* Map and the close handler is registered
GetMcp(sessionId) ==
  /\ ~LimitReached
  /\ connections[sessionId] = "none"
  /\ \A s \in SessionIds : s < sessionId => connections[s] # "none"
  /\ CountHit
  /\ transports' = TransportsSet(transports, sessionId)
  /\ connections' = [connections EXCEPT ![sessionId] = "open"]
  /\ lastResponse' = HttpResponse("GET", sessionId, 200, sessionId)
  /\ UNCHANGED << serverVars, uiVars, splitName, splitWords, lookupArgs, limiter, pendingPost >>

\* res.on("close"): the connection of the session closes
Close(sessionId) ==
  /\ connections[sessionId] = "open"
  /\ connections' = [connections EXCEPT ![sessionId] = "closed"]
  /\ transports' = TransportsDelete(transports, sessionId)
  /\ UNCHANGED << serverVars, uiVars, splitName, splitWords, lookupArgs, limiter, totalHits,
                  pendingPost, lastResponse >>

\* app.post("/mcp/message") up to the reading of the body: 404 without a
\* transport for the session id
PostMessage(sessionId) ==
  /\ ~LimitReached
  /\ pendingPost = NoSession
  /\ CountHit
  /\ IF TransportsGet(transports, sessionId) = NoSession
     THEN /\ lastResponse' = HttpResponse("POST", sessionId, 404, NoSession)
          /\ UNCHANGED pendingPost
     ELSE /\ pendingPost' = TransportsGet(transports, sessionId)
          /\ UNCHANGED lastResponse
  /\ UNCHANGED << serverVars, uiVars, splitName, splitWords, lookupArgs, limiter,
                  transports, connections >>

\* req.on("end"): the body is parsed and handed to the transport found
\* when the request arrived, or is not JSON
PostEnd ==
  /\ pendingPost # NoSession
  /\ pendingPost' = NoSession
  /\ \/ lastResponse' = HttpResponse("POST", pendingPost, 400, NoSession)
     \/ \E status \in TransportStatuses :
          lastResponse' = HttpResponse("POST", pendingPost, status, pendingPost)
  /\ UNCHANGED << serverVars, uiVars, splitName, splitWords, lookupArgs, limiter, totalHits,
                  transports, connections >>

\* windowMs: the window of the limiter ends
WindowReset ==
  /\ limiter
  /\ totalHits > 0
  /\ totalHits' = 0
  /\ UNCHANGED << serverVars, uiVars, splitName, splitWords, lookupArgs, limiter,
                  transports, connections, pendingPost, lastResponse >>

NextHttp ==
  \/ TooManyRequests("GET", NoSession)
  \/ \E sessionId \in PostIds : TooManyRequests("POST", sessionId)
  \/ \E sessionId \in SessionIds : GetMcp(sessionId)
  \/ \E sessionId \in SessionIds : Close(sessionId)
  \/ \E sessionId \in PostIds : PostMessage(sessionId)
  \/ PostEnd
  \/ WindowReset

SpecHttp == InitHttp /\ [][NextHttp]_vars

(***************************************************************************)
(* Properties                                                              *)
(***************************************************************************)
\* The search of process p has run to its end and returned a ranking
Completed(p) == pc[p] = "returned" \/ (pc[p] = "responded" /\ ~response[p].isError)

LayerSum(layers) ==
  layers.substring + layers.fuzzy + layers.semantic + layers.visual + layers.synonym

\* Some query word equals, case-insensitively, one PascalCase segment of the name
HasExactSegment(iconName, queryWords) ==
  \E w \in 1..Len(queryWords) : \E s \in 1..Len(splitPascalCase(iconName)) :
    toLowerCase(splitPascalCase(iconName)[s]) = queryWords[w]

\* C1: the total score computed for an entry is the sum of its five layer
\* scores clamped to 100, so it lies in [0,100], and the score field of every
\* returned result lies in [0,100].
C1_TotalInRange ==
  \A p \in Procs :
    /\ \A i \in 1..Len(iconLayerScores[p]) :
         /\ TotalScore(iconLayerScores[p][i]) \in 0..(MaxTotal * Points)
         /\ TotalScore(iconLayerScores[p][i]) =
              Min2(MaxTotal * Points, LayerSum(iconLayerScores[p][i]))
    /\ \A i \in 1..Len(topResults[p]) :
         topResults[p][i].total \in 0..(MaxTotal * Points)
    /\ \A i \in 1..Len(results[p]) : results[p][i].score \in 0..MaxTotal

\* A returned entry whose five layers sum to more than 100 points
C1_Witness ==
  \E p \in Procs :
    /\ Completed(p)
    /\ \E i \in 1..Len(topResults[p]) :
         /\ LayerSum(topResults[p][i].layers) > MaxTotal * Points
         /\ results[p][i].score = MaxTotal

\* C2: an entry one of whose PascalCase segments equals a query word has a
\* total score of exactly 100, whatever the other four layers give it.
C2_ExactSegmentScores100 ==
  \A p \in Procs :
    Completed(p) =>
      \A n \in 1..Len(FLUENT_ICON_NAMES) :
        HasExactSegment(FLUENT_ICON_NAMES[n], QueryWords(call[p].query)) =>
          \E i \in 1..Len(iconLayerScores[p]) :
            /\ iconLayerScores[p][i].name = FLUENT_ICON_NAMES[n]
            /\ TotalScore(iconLayerScores[p][i]) = MaxTotal * Points

\* A search under which an entry with an exact segment match also scores in
\* the fuzzy and the semantic layer
C2_Witness ==
  \E p \in Procs :
    /\ Completed(p)
    /\ \E i \in 1..Len(iconLayerScores[p]) :
         /\ HasExactSegment(iconLayerScores[p][i].name, QueryWords(call[p].query))
         /\ iconLayerScores[p][i].fuzzy > 0
         /\ iconLayerScores[p][i].semantic > 0
         /\ TotalScore(iconLayerScores[p][i]) = MaxTotal * Points

\* C3: for a threshold in [0,1] and maxResults >= 1 searchIcons returns at
\* most maxResults results.
C3_AtMostMaxResults ==
  \A p \in Procs :
    (call[p].threshold \in 0..1000 /\ call[p].maxResults >= 1) =>
      Len(results[p]) <= call[p].maxResults

\* A search that scored more entries than maxResults and returned maxResults
C3_Witness ==
  \E p \in Procs :
    /\ Completed(p)
    /\ call[p].threshold \in 0..1000
    /\ call[p].maxResults >= 1
    /\ Len(FinalScores(iconLayerScores[p])) > call[p].maxResults
    /\ Len(results[p]) = call[p].maxResults

\* C4: the returned list is ordered by total score descending, and so is the
\* score field of the results.
C4_SortedByScore ==
  \A p \in Procs :
    \A i, j \in 1..Len(results[p]) :
      i < j => /\ topResults[p][i].total >= topResults[p][j].total
               /\ results[p][i].score >= results[p][j].score

\* A ranking that differs from the order in which the entries were scored
C4_Witness ==
  \E p \in Procs :
    /\ Completed(p)
    /\ Len(results[p]) >= 2
    /\ results[p][1].score > results[p][Len(results[p])].score
    /\ FinalScores(iconLayerScores[p])[1].name # topResults[p][1].name

C6_Deterministic ==
  \A p, q \in Procs :
    (/\ Completed(p) /\ Completed(q)
     /\ call[p] = call[q]
     /\ cacheAtStart[p] = cacheAtStart[q]) => results[p] = results[q]

\* Two finished searches of the same call, started on the same cache contents,
\* with a third search run besides them and the cache changed since they began
C6_Witness ==
  /\ Completed(1) /\ Completed(2)
  /\ call[1] = call[2]
  /\ cacheAtStart[1] = cacheAtStart[2]
  /\ synonymCache # cacheAtStart[1]
  /\ calls = MaxConcurrentCalls
  /\ \E i \in 1..Len(results[1]) : results[1][i].scoreBreakdown.synonym > 0

\* The search of process p is past LAYER 1
PastFuzzyLayer(p) == pc[p] = "awaitSynonyms" \/ Completed(p)

\* The fuzzy-layer score of an entry in a Map of layer scores (0 without entry)
FuzzyScoreIn(scores, iconName) ==
  IF HasScores(scores, iconName)
  THEN scores[CHOOSE k \in 1..Len(scores) : scores[k].name = iconName].fuzzy
  ELSE 0

\* What LAYER 1 alone enters in the Map of layer scores, for every call of the
\* model, computed once
FuzzyLayerOfCalls ==
  Tuple([c \in 1..Len(CallList) |->
    ApplyHits(<<>>, FuzzyHits(QueryLower(CallList[c].query), CallList[c].maxResults,
                              CallList[c].threshold))])

FuzzyLayerUnder(c, threshold) ==
  FuzzyLayerOfCalls[IndexOf(CallList, CallOf(c.query, c.maxResults, threshold))]

\* The fuzzy-layer score LAYER 1 gives an entry under a threshold
FuzzyScoreUnder(iconName, c, threshold) ==
  FuzzyScoreIn(FuzzyLayerUnder(c, threshold), iconName)

\* The entry is among the matches LAYER 1 takes from Fuse under a threshold
InFuzzyWindow(iconName, c, threshold) == HasScores(FuzzyLayerUnder(c, threshold), iconName)

LookupSettles(p) == promise[p].state \in {"resolved", "rejected"} \/ env # "wordnetSilent"

\* C8: a synonym provider that throws, fails or never answers for a query
\* word does not make the search fail or hang: searchIcons is not rejected
\* because of the lookup, the handler does not answer with an error, and a
\* search that awaits a lookup can always go on.
C8_SynonymFailureTolerated ==
  \A p \in Procs :
    /\ pc[p] = "rejected" => promise[p].state # "rejected"
    /\ (pc[p] = "responded" /\ promise[p].state = "rejected") => ~response[p].isError
    /\ pc[p] = "awaitSynonyms" => LookupSettles(p)

\* The arguments lie outside the precondition of the search
InvalidInput(c) ==
  \/ QueryLower(c.query) = <<>>
  \/ c.threshold < 0
  \/ c.threshold > 1000
  \/ c.maxResults < 1

\* C9: a call with an empty or whitespace-only query, a threshold outside
\* [0,1] or maxResults < 1 is rejected with an error, never answered with a
\* normal response.
C9_InvalidInputRejected ==
  \A p \in Procs :
    (pc[p] = "responded" /\ InvalidInput(call[p])) => response[p].isError

\* No layer has a match for any word of the query, whichever synonyms the
\* providers have for it
MatchesNothing(c) ==
  /\ Len(SubstringHits(QueryWords(c.query))) = 0
  /\ Len(FuzzyHits(QueryLower(c.query), c.maxResults, c.threshold)) = 0
  /\ Len(VisualHits(QueryWords(c.query), c.threshold)) = 0
  /\ \A w \in 1..Len(QueryWords(c.query)) :
       /\ Len(SemanticDirectHits(QueryWords(c.query)[w], c.threshold)) = 0
       /\ Len(SemanticFuzzyHits(QueryWords(c.query)[w], c.threshold)) = 0
       /\ Len(SynonymHits(ThesaurusSynonyms(QueryWords(c.query)[w])
                            \o WordNetSynonyms(QueryWords(c.query)[w]),
                          c.threshold)) = 0

\* C10: a query within the precondition whose words match nothing in any
\* layer is answered with an empty result list and a normal 'no icons found'
\* response, not with an error.
C10_NoMatchIsNotAnError ==
  \A p \in Procs :
    (env = "ok" /\ ~InvalidInput(call[p]) /\ MatchesNothing(call[p])) =>
      /\ pc[p] # "rejected"
      /\ Completed(p) => results[p] = <<>>
      /\ pc[p] = "responded" =>
           (~response[p].isError /\ response[p].text = "No icons found")

\* The five layer scores lie between 0 and the caps of their layers, given in
\* the unit of the scores (points or thousandths of a point)
WithinLayerCaps(layers, unit) ==
  /\ layers.substring \in 0..(ExactWordPoints * unit)
  /\ layers.fuzzy \in 0..(FuzzyPoints * unit)
  /\ layers.semantic \in 0..(SemanticDirectPoints * unit)
  /\ layers.visual \in 0..(VisualDirectPoints * unit)
  /\ layers.synonym \in 0..(SynonymBridgePoints * unit)

\* C11: for a threshold in [0,1], in every score breakdown the five layer
\* fields are non-negative and bounded by their caps: substring <= 100,
\* fuzzy <= 15, semantic <= 25, visual <= 25, synonym <= 20; the same holds of
\* the layer scores of every entry before rounding.
C11_LayersWithinCaps ==
  \A p \in Procs :
    call[p].threshold \in 0..1000 =>
      /\ \A i \in 1..Len(iconLayerScores[p]) :
           WithinLayerCaps(iconLayerScores[p][i], Points)
      /\ \A i \in 1..Len(results[p]) :
           WithinLayerCaps(results[p][i].scoreBreakdown, 1)

\* A returned entry with three of its layers at their caps and a score in a
\* fourth
C11_Witness ==
  \E p \in Procs :
    /\ Completed(p)
    /\ call[p].threshold \in 0..1000
    /\ \E i \in 1..Len(results[p]) :
         /\ results[p][i].scoreBreakdown.substring = ExactWordPoints
         /\ results[p][i].scoreBreakdown.fuzzy = FuzzyPoints
         /\ results[p][i].scoreBreakdown.semantic = SemanticDirectPoints
         /\ results[p][i].scoreBreakdown.synonym > 0

SubstringScoreIn(scores, iconName) ==
  IF HasScores(scores, iconName)
  THEN scores[CHOOSE k \in 1..Len(scores) : scores[k].name = iconName].substring
  ELSE 0

\* Some query word occurs in the name, compared without case
HasSubstring(iconName, queryWords) ==
  \E w \in 1..Len(queryWords) :
    \E k \in 1..(Len(iconName) - Len(queryWords[w]) + 1) :
      SubSeq(toLowerCase(iconName), k, k + Len(queryWords[w]) - 1) = queryWords[w]

StartsOf(words) == {1 + Len(Flatten(SubSeq(words, 1, k - 1))) : k \in 1..Len(words)}

IsUpperLetter(c) == IndexOfChar(c, UpperLetters) # 0

IsLowerLetter(c) == IndexOfChar(c, LowerLetters) # 0

\* The words are not empty and give back the name when concatenated
IsPartitionOf(words, wholeName) ==
  /\ Flatten(words) = wholeName
  /\ \A k \in 1..Len(words) : Len(words[k]) > 0

ScoresIn(scores, iconName) ==
  IF HasScores(scores, iconName)
  THEN scores[CHOOSE k \in 1..Len(scores) : scores[k].name = iconName]
  ELSE ZeroScores(iconName)

\* The name has the fragment as one complete PascalCase segment
HasSegment(iconName, fragment) == HasExactSegment(iconName, << toLowerCase(fragment) >>)

\* The key is one a word of the query matches: it is the word, or the fuzzy
\* matcher over the ConceptMapping keys returns it for the word
KeyMatched(k, c) ==
  \E w \in 1..Len(QueryWords(c.query)) :
    \/ QueryWords(c.query)[w] = semanticKeys[k]
    \/ \E m \in 1..Len(semanticFuseSearch(QueryWords(c.query)[w], c.threshold, SemanticKeyLimit)) :
         semanticFuseSearch(QueryWords(c.query)[w], c.threshold, SemanticKeyLimit)[m].idx = k

IsDefaultCall(c) == c.maxResults = DefaultMaxResults /\ c.threshold = DefaultThreshold

\* The fragment is the name of a catalog entry, apart from the variant
NamesCatalogEntry(fragment) ==
  \E n \in 1..Len(iconSearchItems) : iconSearchItems[n].baseName = fragment

\* C16: for a query with a word that is a ConceptMapping key, under the
\* default maxResults and threshold, the result list has an entry for every
\* fragment mapped from that key that names a catalog entry.
C16_EveryMappedFragmentReturned ==
  \A p \in Procs :
    (Completed(p) /\ IsDefaultCall(call[p])) =>
      \A w \in 1..Len(QueryWords(call[p].query)) :
        IsSemanticKey(QueryWords(call[p].query)[w]) =>
          \A f \in 1..Len(PatternsOf(QueryWords(call[p].query)[w])) :
            NamesCatalogEntry(PatternsOf(QueryWords(call[p].query)[w])[f]) =>
              \E i \in 1..Len(results[p]) :
                HasSubstring(results[p][i].name,
                             << toLowerCase(PatternsOf(QueryWords(call[p].query)[w])[f]) >>)

\* C17: for the query "save" under the default maxResults and threshold the
\* entry ArrowDownloadRegular is returned with a score of 40, 25 semantic
\* and 15 fuzzy.
C17_ArrowDownloadScores40 ==
  \A p \in Procs :
    (Completed(p) /\ IsDefaultCall(call[p]) /\ QueryWords(call[p].query) = << Q_save >>) =>
      \E i \in 1..Len(results[p]) :
        /\ results[p][i].name = FLUENT_ICON_NAMES[2]
        /\ results[p][i].score = 40
        /\ results[p][i].scoreBreakdown.semantic = SemanticDirectPoints
        /\ results[p][i].scoreBreakdown.fuzzy = FuzzyPoints

\* Every icon the synonym reaches through its fragments, when it is a
\* ConceptMapping key, has one of those fragments as a complete segment
BridgesWholeSegments(synonym, threshold) ==
  \A h \in 1..Len(SynonymBridgeHits(synonym, threshold)) :
    \E f \in 1..Len(PatternsOf(synonym)) :
      HasSegment(SynonymBridgeHits(synonym, threshold)[h].name, PatternsOf(synonym)[f])

\* C18: in the synonym layer, when a synonym is a ConceptMapping key, an
\* entry is scored through that key's fragments only if its name contains the
\* fragment as one complete PascalCase segment: so it is for the synonyms a
\* search has looked up and is about to score.
C18_BridgeHitsWholeSegments ==
  \A p \in Procs :
    (pc[p] = "awaitSynonyms" /\ promise[p].state = "resolved") =>
      \A s \in 1..Len(promise[p].value) :
        BridgesWholeSegments(promise[p].value[s], call[p].threshold)

\* In this step the search of process p calls getSynonyms: it starts, or it
\* resumes and goes on to its next query word
CallsGetSynonyms(p) ==
  /\ pc'[p] = "awaitSynonyms"
  /\ (pc[p] # "awaitSynonyms" \/ wordIdx'[p] # wordIdx[p])

\* C19: once getSynonyms has stored a list for a word in the cache, an empty
\* list included, the entry is never evicted or changed, and every later
\* getSynonyms call for the word returns the cached list at once, without a
\* lookup (no WordNet query is left pending, nothing is written to the cache).
C19_CachedForGood ==
  [][/\ \A w \in DOMAIN synonymCache :
          w \in DOMAIN synonymCache' /\ synonymCache'[w] = synonymCache[w]
     /\ \A p \in Procs :
          (CallsGetSynonyms(p) /\ promise'[p].word \in DOMAIN synonymCache) =>
            /\ promise'[p].state = "resolved"
            /\ promise'[p].value = synonymCache[promise'[p].word]
            /\ synonymCache' = synonymCache]_vars

\* A search that called getSynonyms for a word whose cached list, stored
\* before the search began, is empty, and got that list
C19_Witness ==
  \E p \in Procs :
    /\ pc[p] = "awaitSynonyms"
    /\ promise[p].state = "resolved"
    /\ promise[p].word \in DOMAIN cacheAtStart[p]
    /\ cacheAtStart[p][promise[p].word] = <<>>
    /\ promise[p].value = <<>>
    /\ \E q \in Procs : q # p /\ pc[q] = "awaitSynonyms"

\* What getSynonyms resolves to for a word looked up by a search that runs
\* alone: the list of tier 1, or that of tier 2 when tier 1 throws or finds
\* nothing
LoneSynonyms(environment, word) ==
  IF environment # "synonymsLibThrows" /\ Len(ThesaurusSynonyms(word)) > 0
  THEN ThesaurusSynonyms(word)
  ELSE WordNetSynonyms(word)

\* LAYER 3 of a search that runs alone, word after word
LoneSynonymLayer(scores, environment, c) ==
  FoldLeft(LAMBDA acc, word :
             ApplyHits(acc, SynonymHits(LoneSynonyms(environment, word), c.threshold)),
           scores, QueryWords(c.query))

\* The results of a search that runs alone and to its end
LoneResults(environment, c) ==
  IconResults(TopResults(FinishLayers(LoneSynonymLayer(SyncLayersOf(c), environment, c), c),
                         c.maxResults))

\* The results of the searches of the concurrent server, each run alone,
\* computed once
LoneResultsOfCalls ==
  [environment \in Environments, query \in ConcurrentQueries |->
    LoneResults(environment, CallOf(query, DefaultMaxResults, DefaultThreshold))]

\* A finished search returned what it returns alone, and the cache has, for
\* each of its words, the one list a lookup of the word yields
AsIfAlone(p) ==
  /\ results[p] = LoneResultsOfCalls[env, call[p].query]
  /\ \A w \in 1..Len(QueryWords(call[p].query)) :
       /\ QueryWords(call[p].query)[w] \in DOMAIN synonymCache
       /\ synonymCache[QueryWords(call[p].query)[w]] =
            LoneSynonyms(env, QueryWords(call[p].query)[w])

\* The providers answer every lookup
ProvidersAnswer == env \in {"ok", "synonymsLibThrows"}

\* C20: when searches look up the same uncached word concurrently, each
\* lookup completes, the cache ends with one entry for the word, and each
\* search returns the results it returns when run alone; no interleaving
\* blocks a search: while the providers answer, a search that awaits a lookup
\* always runs to its end.
C20_ConcurrentLookups ==
  /\ [](\A p \in Procs : Completed(p) => AsIfAlone(p))
  /\ \A p \in Procs : (pc[p] = "awaitSynonyms" /\ ProvidersAnswer) ~> Completed(p)

\* Two finished searches whose first word is the same, was in the cache when
\* neither began and takes a WordNet lookup, so that both lookups were in
\* flight together; the word has synonyms that score
C20_Witness ==
  /\ Completed(1) /\ Completed(2)
  /\ env = "ok"
  /\ QueryWords(call[1].query)[1] = QueryWords(call[2].query)[1]
  /\ QueryWords(call[1].query)[1] \notin DOMAIN cacheAtStart[1]
  /\ QueryWords(call[1].query)[1] \notin DOMAIN cacheAtStart[2]
  /\ Len(ThesaurusSynonyms(QueryWords(call[1].query)[1])) = 0
  /\ synonymCache[QueryWords(call[1].query)[1]] # <<>>
  /\ \E i \in 1..Len(results[1]) : results[1][i].scoreBreakdown.synonym > 0
  /\ results[1] = results[2]

\* The lookup of every query word of the search of process p has settled:
\* nothing is awaited and each word has its list in the cache
AllLookupsSettled(p) ==
  /\ promise[p] = NoPromise
  /\ \A w \in 1..Len(QueryWords(call[p].query)) :
       QueryWords(call[p].query)[w] \in DOMAIN synonymCache

\* searchIcons of process p returns in this step
Returns(p) == pc[p] # "returned" /\ pc'[p] = "returned"

\* C21: searchIcons computes the final totals and returns its result list
\* only after the synonym lookup of every query word has settled: while a
\* lookup of the search is awaited there is no ranking, no result list and no
\* response, a finished search has the list of each of its words in the
\* cache, and a search with query words returns in the step that resumes it
\* from the settled lookup of its last word.
C21_ResultsAfterAllLookups ==
  /\ [](\A p \in Procs :
          /\ pc[p] = "awaitSynonyms" =>
               /\ topResults[p] = <<>>
               /\ results[p] = <<>>
               /\ response[p] = NoResponse
          /\ Completed(p) => AllLookupsSettled(p))
  /\ [][\A p \in Procs :
          (Returns(p) /\ Len(QueryWords(call'[p].query)) > 0) =>
             /\ pc[p] = "awaitSynonyms"
             /\ promise[p].state = "resolved"
             /\ wordIdx[p] = Len(QueryWords(call[p].query))]_vars

\* A finished search for two words, each looked up during the search, with
\* a result that scores in the synonym layer
C21_Witness ==
  \E p \in Procs :
    /\ Completed(p)
    /\ Len(QueryWords(call[p].query)) = 2
    /\ \A w \in 1..2 : QueryWords(call[p].query)[w] \notin DOMAIN cacheAtStart[p]
    /\ \E i \in 1..Len(results[p]) : results[p][i].scoreBreakdown.synonym > 0

\* The labels of the five layers, in the order the code lists them
LayerLabels == << "substring", "fuzzy", "semantic", "visual", "wordnet" >>

\* The scores of the five layers, in the same order
LayerScoresOf(layers) ==
  << layers.substring, layers.fuzzy, layers.semantic, layers.visual, layers.synonym >>

\* label names the first of the layers whose score is the largest of the five
NamesFirstLargest(label, scores) ==
  \E k \in 1..Len(LayerLabels) :
    /\ label = LayerLabels[k]
    /\ \A j \in 1..Len(LayerLabels) : scores[j] <= scores[k]
    /\ \A j \in 1..(k - 1) : scores[j] < scores[k]

\* C22: a result's scoreLayer is 'exact' exactly when its substring-layer
\* score is 100; otherwise it names a layer whose score is the largest of the
\* five, the first such layer in the order substring, fuzzy, semantic,
\* visual, synonym.
C22_DominantLayer ==
  \A p \in Procs : Completed(p) =>
    \A i \in 1..Len(results[p]) :
      /\ results[p][i].scoreLayer = "exact"
           <=> results[p][i].scoreBreakdown.substring = ExactWordPoints
      /\ results[p][i].scoreLayer # "exact" =>
           NamesFirstLargest(results[p][i].scoreLayer,
                             LayerScoresOf(topResults[p][i].layers))

\* One result list with an exact result and with a result whose largest
\* score two layers share, labelled with the first of them
C22_Witness ==
  \E p \in Procs :
    /\ Completed(p)
    /\ \E i \in 1..Len(results[p]) : results[p][i].scoreLayer = "exact"
    /\ \E i \in 1..Len(results[p]) :
         /\ results[p][i].scoreLayer # "exact"
         /\ \E j, k \in 1..Len(LayerLabels) :
              /\ j < k
              /\ results[p][i].scoreLayer = LayerLabels[j]
              /\ LayerScoresOf(topResults[p][i].layers)[j]
                   = LayerScoresOf(topResults[p][i].layers)[k]

\* word is the tag of the dictionary with this index
IsTagAt(word, tagIndex) ==
  tagIndex \in 1..Len(TAG_DICTIONARY) /\ TAG_DICTIONARY[tagIndex] = word

\* The base name of the b-th rule of the visual tag index carries a tag that
\* is one of the query words
CarriesTagOf(b, queryWords) ==
  \E w \in 1..Len(queryWords) : \E t \in 1..Len(ICON_VISUAL_TAGS[b].tags) :
    IsTagAt(queryWords[w], ICON_VISUAL_TAGS[b].tags[t])

\* The names baseName + Regular and baseName + Filled that the catalog has
VariantsInCatalog(baseName) ==
  {iconName \in {baseName \o Regular, baseName \o Filled} :
     \E n \in 1..Len(FLUENT_ICON_NAMES) : FLUENT_ICON_NAMES[n] = iconName}

\* C23: if a query word equals a tag of the visual tag dictionary, then for
\* every base name whose tag set contains the index of the tag, its Regular
\* entry and its Filled entry, when the catalog has them, each have a
\* visual-layer score of exactly 25, in the scores of the finished search and
\* in the breakdown of every result that names them.
C23_TagWordScores25 ==
  \A p \in Procs : Completed(p) =>
    \A b \in 1..Len(ICON_VISUAL_TAGS) :
      CarriesTagOf(b, QueryWords(call[p].query)) =>
        \A iconName \in VariantsInCatalog(ICON_VISUAL_TAGS[b].baseName) :
          /\ ScoresIn(iconLayerScores[p], iconName).visual = VisualDirectPoints * Points
          /\ \A i \in 1..Len(results[p]) :
               results[p][i].name = iconName =>
                 results[p][i].scoreBreakdown.visual = VisualDirectPoints

\* A finished search with a tag among its words, for which one base name has
\* both entries and another has one of the two, all returned with 25 visual
\* points, while an entry without the tag has fewer
C23_Witness ==
  \E p \in Procs :
    /\ Completed(p)
    /\ \E b, c \in 1..Len(ICON_VISUAL_TAGS) :
         /\ CarriesTagOf(b, QueryWords(call[p].query))
         /\ CarriesTagOf(c, QueryWords(call[p].query))
         /\ Cardinality(VariantsInCatalog(ICON_VISUAL_TAGS[b].baseName)) = 2
         /\ Cardinality(VariantsInCatalog(ICON_VISUAL_TAGS[c].baseName)) = 1
         /\ \A iconName \in VariantsInCatalog(ICON_VISUAL_TAGS[b].baseName)
                              \cup VariantsInCatalog(ICON_VISUAL_TAGS[c].baseName) :
              \E i \in 1..Len(results[p]) :
                /\ results[p][i].name = iconName
                /\ results[p][i].scoreBreakdown.visual = VisualDirectPoints
    /\ \E i \in 1..Len(results[p]) :
         results[p][i].scoreBreakdown.visual < VisualDirectPoints

\* The name is an entry of the catalog
InCatalog(iconName) == \E n \in 1..Len(FLUENT_ICON_NAMES) : FLUENT_ICON_NAMES[n] = iconName

\* A tag index LAYER 4 uses for the call: the index of a query word that is a
\* tag, or of a tag the fuzzy tag matcher returns for a query word
TagUsed(c, tagIndex) ==
  \E w \in 1..Len(QueryWords(c.query)) :
    \/ IsTagAt(QueryWords(c.query)[w], tagIndex)
    \/ \E m \in 1..Len(tagFuseSearch(QueryWords(c.query)[w], c.threshold, TagFuseLimit)) :
         tagFuseSearch(QueryWords(c.query)[w], c.threshold, TagFuseLimit)[m].idx = tagIndex

\* The base names of the visual tag index that LAYER 4 reaches for the call
\* and that lack their Regular or their Filled entry in the catalog
MissingEntryRules(c) ==
  {b \in 1..Len(ICON_VISUAL_TAGS) :
     /\ \E t \in 1..Len(ICON_VISUAL_TAGS[b].tags) : TagUsed(c, ICON_VISUAL_TAGS[b].tags[t])
     /\ Cardinality(VariantsInCatalog(ICON_VISUAL_TAGS[b].baseName)) < 2}

\* What makes searchIcons of process p throw: a prototype key looked up in
\* the ConceptMapping, for a query word or a synonym, or a rejected lookup
ThrowCause(p) ==
  \/ SemanticThrows(QueryWords(call[p].query))
  \/ promise[p].state = "rejected"
  \/ SynonymThrows(promise[p].value)

\* C24: a base name of the visual tag index without a catalog entry is
\* skipped without error: no score record and no result names anything but
\* an entry of the catalog, and a search that fails has failed for a cause
\* other than the visual layer.
C24_MissingEntrySkipped ==
  \A p \in Procs :
    /\ \A k \in 1..Len(iconLayerScores[p]) : InCatalog(iconLayerScores[p][k].name)
    /\ \A i \in 1..Len(results[p]) : InCatalog(results[p][i].name)
    /\ pc[p] = "rejected" => ThrowCause(p)

\* A finished search whose visual layer reached a base name with neither
\* entry in the catalog and one with only one, and returned results
C24_Witness ==
  \E p \in Procs :
    /\ Completed(p)
    /\ \E b, c \in MissingEntryRules(call[p]) :
         /\ VariantsInCatalog(ICON_VISUAL_TAGS[b].baseName) = {}
         /\ Cardinality(VariantsInCatalog(ICON_VISUAL_TAGS[c].baseName)) = 1
    /\ \E i \in 1..Len(results[p]) : results[p][i].scoreBreakdown.visual > 0

\* The members of a list
Members(list) == {list[i] : i \in 1..Len(list)}

\* The strings the providers' answers list, over all parts of speech or synsets
Listed(answer) == UNION {Members(answer[i]) : i \in 1..Len(answer)}

\* What tier 1 makes of the strings of the package: lower case, without "_"
\* and white space
ThesaurusCandidates(answer) == {RemoveSeparators(toLowerCase(s)) : s \in Listed(answer)}

\* What tier 2 makes of the strings of WordNet: the parts between "_", in
\* lower case
WordNetCandidates(answer) ==
  UNION {Members(SplitUnderscore(toLowerCase(s))) : s \in Listed(answer)}

\* A candidate both tiers keep: not the word, at least 3 characters
Kept(candidates, word) == {s \in candidates : s # word /\ Len(s) >= MinSynonymLength}

\* The thesaurus tier returned nothing for the word of the lookup
ThesaurusEmpty ==
  env = "synonymsLibThrows" \/ Kept(ThesaurusCandidates(lookupArgs.synResult), lookupArgs.word) = {}

\* A list without duplicates, without the word, of strings of 3 characters
\* or more, all of them from the candidates, and no longer than the limit
SynonymListOf(list, candidates, word, limit) ==
  /\ \A i, j \in 1..Len(list) : list[i] = list[j] => i = j
  /\ Members(list) \subseteq Kept(candidates, word)
  /\ Len(list) <= limit

LoneScores(environment, c) ==
  FinishLayers(LoneSynonymLayer(SyncLayersOf(c), environment, c), c)

\* The finished search of process p returned the first results of the same
\* search with maxResults M
PrefixOfSearchWith(p, M) ==
  results[p] = Slice0(LoneResults(env, CallOf(call[p].query, M, call[p].threshold)),
                      call[p].maxResults)

\* The finished search of process p gave every entry the layer scores of
\* the same search with maxResults M
ScoresOfSearchWith(p, M) ==
  \A n \in 1..Len(FLUENT_ICON_NAMES) :
    ScoresIn(iconLayerScores[p], FLUENT_ICON_NAMES[n])
      = ScoresIn(LoneScores(env, CallOf(call[p].query, M, call[p].threshold)),
                 FLUENT_ICON_NAMES[n])

\* C26: an entry's layer scores and total score do not depend on maxResults:
\* for N <= M and the same query, threshold and synonym cache,
\* searchIcons(query, N) equals the first N results of searchIcons(query, M).
C26_PrefixOfLargerSearch ==
  \A p \in Procs : Completed(p) =>
    \A M \in MaxResultsValues :
      (0 < call[p].maxResults /\ call[p].maxResults <= M) =>
        /\ ScoresOfSearchWith(p, M)
        /\ PrefixOfSearchWith(p, M)

\* C27: for every returned result, the reported score equals the sum of the
\* five reported scoreBreakdown fields clamped to 100.
C27_ScoreIsClampedBreakdownSum ==
  \A p \in Procs : Completed(p) =>
    \A i \in 1..Len(results[p]) :
      results[p][i].score = Min2(MaxTotal, LayerSum(results[p][i].scoreBreakdown))

\* The Map has an entry for exactly the sessions whose connection is open
OpenSessionsMapped ==
  \A s \in SessionIds : s \in transports <=> connections[s] = "open"

\* The step answers a POST that arrives with the session id
AnswersPost(sessionId) ==
  /\ pendingPost = NoSession
  /\ pendingPost' = NoSession
  /\ lastResponse' # lastResponse
  /\ lastResponse'.method = "POST"
  /\ lastResponse'.sessionId = sessionId

\* The step starts to read the body of a POST for a transport
TakesPost == pendingPost = NoSession /\ pendingPost' # NoSession

\* C28 as stated: the transports Map holds a session id exactly from the
\* moment its GET /mcp connection is accepted until the connection closes;
\* a POST /mcp/message whose sessionId is not in the Map is answered 404 and
\* is handed to no transport.
C28_UnknownSessionGets404 ==
  /\ []OpenSessionsMapped
  /\ [][/\ \A s \in PostIds :
             (AnswersPost(s) /\ s \notin transports) =>
                /\ lastResponse'.status = 404
                /\ lastResponse'.transport = NoSession
        /\ TakesPost => pendingPost' \in transports]_vars

\* C28, amended: the same, except that the variant with the rate limiter
\* answers 429 to a request over the limit before the route is reached.
C28_UnknownSessionGets404UnlessLimited ==
  /\ []OpenSessionsMapped
  /\ [][/\ \A s \in PostIds :
             (AnswersPost(s) /\ s \notin transports) =>
                /\ lastResponse'.status = IF LimitReached THEN 429 ELSE 404
                /\ lastResponse'.transport = NoSession
        /\ TakesPost => pendingPost' \in transports]_vars

\* A POST for a session that has closed was answered 404 while the other
\* session is open and had a message handed to its transport before
C28_Witness ==
  /\ lastResponse.method = "POST"
  /\ lastResponse.status = 404
  /\ lastResponse.sessionId \in SessionIds
  /\ connections[lastResponse.sessionId] = "closed"
  /\ \E s \in SessionIds : connections[s] = "open" /\ s \in transports

(***************************************************************************)
(* The detail panel of the UI: the size buttons put a size into the name   *)
(* of the selected icon (getSizedIconName), and the panel takes it out     *)
(* again to find the component of the unsized icon.                        *)
(***************************************************************************)
\* Base names of unsized icons of the icon library
UnsizedBaseNames ==
  << <<"S", "e", "n", "d">>, <<"D", "e", "l", "e", "t", "e">>, <<"A", "r", "r", "o", "w", "D", "o", "w", "n", "l", "o", "a", "d">>, <<"C", "e", "l", "l", "u", "l", "a", "r", "5", "G">>, <<"M", "u", "l", "t", "i", "p", "l", "i", "e", "r", "1", "2", "X">>,
     <<"B", "a", "t", "t", "e", "r", "y", "0">>, <<"V", "i", "d", "e", "o", "3", "6", "0">>, <<"T", "i", "m", "e", "r", "1", "0">> >>

IconVariants == << Regular, Filled, Color >>

\* The size labels of the size buttons; the empty label stands for null
\* (the button of the unsized icon)
SizeLabels == << <<>>, <<"1", "6">>, <<"2", "0">>, <<"2", "4">>, <<"2", "8">>, <<"3", "2">>, <<"4", "8">> >>

Digits == {"0", "1", "2", "3", "4", "5", "6", "7", "8", "9"}

\* The index after the digits that start at position i
DigitsEnd(s, i) ==
  IF \E j \in i..Len(s) : s[j] \notin Digits
  THEN CHOOSE j \in i..Len(s) : s[j] \notin Digits /\ \A k \in i..(j - 1) : s[k] \in Digits
  ELSE Len(s) + 1

\* /\d+(?=Regular|Filled|Color)/ matches at position i
SizeMatchAt(s, i) ==
  /\ s[i] \in Digits
  /\ \E v \in 1..Len(IconVariants) : OccursAt(s, IconVariants[v], DigitsEnd(s, i))

\* getSizedIconName(unsizedName, size)
getSizedIconName(unsizedName, size) ==
  IF size = <<>> THEN unsizedName
  ELSE IF \E v \in 1..Len(IconVariants) :
            EndsWith(unsizedName, IconVariants[v]) /\ Len(unsizedName) > Len(IconVariants[v])
  THEN LET variant == IconVariants[CHOOSE v \in 1..Len(IconVariants) :
                                     EndsWith(unsizedName, IconVariants[v])]
       IN SubSeq(unsizedName, 1, Len(unsizedName) - Len(variant)) \o size \o variant
  ELSE unsizedName

\* selectedIcon.name.replace(/\d+(?=Regular|Filled|Color)/, ''): the first
\* match is taken out
StripSize(name) ==
  IF \E i \in 1..Len(name) : SizeMatchAt(name, i)
  THEN LET i == CHOOSE i \in 1..Len(name) :
                  SizeMatchAt(name, i) /\ \A j \in 1..(i - 1) : ~SizeMatchAt(name, j)
       IN SubSeq(name, 1, i - 1) \o SubSeq(name, DigitsEnd(name, i), Len(name))
  ELSE name

InitPanel ==
  /\ ServerIdle
  /\ splitName = <<>>
  /\ splitWords = <<>>
  /\ lookupArgs = NoLookup
  /\ HttpIdle
  /\ handlerInput = NoHandlerInput
  /\ toolResultText = <<>>
  /\ parsedContent = NoContent
  /\ \E b \in 1..Len(UnsizedBaseNames), v \in 1..Len(IconVariants), z \in 1..Len(SizeLabels) :
       iconArgs = [unsizedName |-> UnsizedBaseNames[b] \o IconVariants[v],
                   size |-> SizeLabels[z]]
  /\ sizedIconName = <<>>
  /\ strippedName = <<>>

\* handleSizeClick(size): the name the panel displays
HandleSizeClick ==
  /\ sizedIconName = <<>>
  /\ sizedIconName' = getSizedIconName(iconArgs.unsizedName, iconArgs.size)
  /\ UNCHANGED << serverVars, splitName, splitWords, lookupArgs, httpVars,
                  handlerInput, toolResultText, parsedContent, iconArgs, strippedName >>

\* DetailPanel renders: the name of the base (unsized) icon component
RenderDetailPanel ==
  /\ sizedIconName # <<>>
  /\ strippedName = <<>>
  /\ strippedName' = StripSize(sizedIconName)
  /\ UNCHANGED << serverVars, splitName, splitWords, lookupArgs, httpVars,
                  handlerInput, toolResultText, parsedContent, iconArgs, sizedIconName >>

NextPanel == HandleSizeClick \/ RenderDetailPanel

SpecPanel == InitPanel /\ [][NextPanel]_vars

\* C30 as stated: getSizedIconName(name, null) returns name unchanged, and
\* for every unsized name ending in Regular, Filled or Color and every size
\* label, taking the size out of getSizedIconName(name, size) the way
\* DetailPanel does gives back name.
C30_SizeStripsBack ==
  /\ (sizedIconName # <<>> /\ iconArgs.size = <<>>) => sizedIconName = iconArgs.unsizedName
  /\ (strippedName # <<>> /\ iconArgs.size # <<>>) => strippedName = iconArgs.unsizedName

(***************************************************************************)
(* The text of the tool result (server.ts) and the parser the UI falls     *)
(* back to when a result has no structuredContent (parseToolResult).       *)
(***************************************************************************)
Newline == "\n"

DigitChars == << "0", "1", "2", "3", "4", "5", "6", "7", "8", "9" >>

\* \w
IsWordChar(c) ==
  c \in Digits \/ c = "_" \/ Includes(UpperLetters, c) \/ Includes(LowerLetters, c)

FormatQueries ==
  { Q_save, Q_delete, Q_beer, Q_filled, Q_deleting, Q_nonsense, Q_beerDelete, Q_full,
    Q_deleteQuoted }

FormatMaxResults == {1, 2, 3, DefaultMaxResults}

FormatThresholds == {DefaultThreshold, 400, 1000}

\* `<${name} />`
JsxElement(name) == <<"<">> \o name \o <<" ", "/", ">">>

\* `import { ${name} } from "@fluentui/react-icons";`
ImportStatement(name) ==
  <<"i", "m", "p", "o", "r", "t", " ", "{", " ">> \o name \o <<" ", "}", " ", "f", "r", "o", "m", " ">> \o << Quote >> \o <<"@", "f", "l", "u", "e", "n", "t", "u", "i", "/", "r", "e", "a", "c", "t", "-", "i", "c", "o", "n", "s">>
    \o << Quote >> \o <<";">>

\* The fields of an IconResult the text is made of
WithMarkup(result) ==
  [name |-> result.name,
   jsxElement |-> JsxElement(result.name),
   importStatement |-> ImportStatement(result.name)]

\* The results searchIcons hands to the handler
HandlerResults(c) ==
  LET found == IconResults(TopResults(FinishLayers(LoneSynonymLayer(
                   SyncLayers(c.query, c.maxResults, c.threshold), "ok", c), c),
                 c.maxResults))
  IN Tuple([i \in 1..Len(found) |-> WithMarkup(found[i])])

\* `${n}` for a number n >= 0
RECURSIVE ToDecimal(_)
ToDecimal(n) ==
  IF n < 10 THEN << DigitChars[n + 1] >>
  ELSE ToDecimal(n \div 10) \o << DigitChars[(n % 10) + 1] >>

\* `${i + 1}. ${icon.name}\n   JSX: ${icon.jsxElement}\n   Import: ${icon.importStatement}`
FormatIcon(icon, i) ==
  ToDecimal(i) \o <<".", " ">> \o icon.name \o << Newline >>
    \o <<" ", " ", " ", "J", "S", "X", ":", " ">> \o icon.jsxElement \o << Newline >>
    \o <<" ", " ", " ", "I", "m", "p", "o", "r", "t", ":", " ">> \o icon.importStatement

\* results.map(...).join("\n\n")
TextOutput(icons) ==
  FoldLeft(LAMBDA text, i :
             IF i = 1 THEN FormatIcon(icons[i], i)
             ELSE text \o << Newline, Newline >> \o FormatIcon(icons[i], i),
           <<>>, [i \in 1..Len(icons) |-> i])

\* The text content of the tool result
ToolResultText(query, icons) ==
  IF Len(icons) = 0
  THEN <<"N", "o", " ", "i", "c", "o", "n", "s", " ", "f", "o", "u", "n", "d", " ", "m", "a", "t", "c", "h", "i", "n", "g", " ">> \o << Quote >> \o query \o << Quote >>
         \o <<".", " ", "T", "r", "y", " ", "a", " ", "d", "i", "f", "f", "e", "r", "e", "n", "t", " ", "s", "e", "a", "r", "c", "h", " ", "t", "e", "r", "m", ".">>
  ELSE <<"F", "o", "u", "n", "d", " ">> \o ToDecimal(Len(icons)) \o <<" ", "i", "c", "o", "n", "s", " ", "m", "a", "t", "c", "h", "i", "n", "g", " ">>
         \o << Quote >> \o query \o << Quote >> \o <<":">> \o << Newline, Newline >>
         \o TextOutput(icons)

\* text.split("\n")
splitLines(text) ==
  LET breaks == {i \in 1..Len(text) : text[i] = Newline}
      Break(n) == IF n = 0 THEN 0
                  ELSE IF n > Cardinality(breaks) THEN Len(text) + 1
                  ELSE CHOOSE i \in breaks : Cardinality({j \in breaks : j < i}) = n - 1
  IN [n \in 1..(Cardinality(breaks) + 1) |-> SubSeq(text, Break(n - 1) + 1, Break(n) - 1)]

\* The index after the spaces that start at position i
SpacesEnd(s, i) ==
  IF \E j \in i..Len(s) : ~IsSpace(s[j])
  THEN CHOOSE j \in i..Len(s) : ~IsSpace(s[j]) /\ \A k \in i..(j - 1) : IsSpace(s[k])
  ELSE Len(s) + 1

\* The index after the word characters that start at position i
WordEnd(s, i) ==
  IF \E j \in i..Len(s) : ~IsWordChar(s[j])
  THEN CHOOSE j \in i..Len(s) : ~IsWordChar(s[j]) /\ \A k \in i..(j - 1) : IsWordChar(s[k])
  ELSE Len(s) + 1

\* line.match(/^\d+\.\s+(\w+)/)?.[1], the empty string for no match
NameMatch(line) ==
  LET dot == DigitsEnd(line, 1)
      start == SpacesEnd(line, dot + 1)
  IN IF /\ dot > 1
        /\ dot <= Len(line)
        /\ line[dot] = "."
        /\ start > dot + 1
        /\ WordEnd(line, start) > start
     THEN SubSeq(line, start, WordEnd(line, start) - 1)
     ELSE <<>>

\* line.match(/<label>\s*(.+)/)?.[1], the empty string for no match
LabelMatch(line, label) ==
  LET at == StringIndexOf(line, label)
      rest == SubSeq(line, at + Len(label), Len(line))
  IN IF at = 0 \/ rest = <<>> THEN <<>>
     ELSE IF trimStart(rest) # <<>> THEN trimStart(rest)
     ELSE << rest[Len(rest)] >>

\* line.match(/matching "(.+?)"/)?.[1] || ""
QueryMatch(line) ==
  LET opening == <<"m", "a", "t", "c", "h", "i", "n", "g", " ">> \o << Quote >>
      Closes(p, q) == q > p + Len(opening) /\ q <= Len(line) /\ line[q] = Quote
      Matches(p) == OccursAt(line, opening, p) /\ \E q \in 1..Len(line) : Closes(p, q)
  IN IF \E p \in 1..Len(line) : Matches(p)
     THEN LET p == CHOOSE p \in 1..Len(line) :
                     Matches(p) /\ \A r \in 1..(p - 1) : ~Matches(r)
              q == CHOOSE q \in 1..Len(line) :
                     Closes(p, q) /\ \A r \in 1..(q - 1) : ~Closes(p, r)
          IN SubSeq(line, p + Len(opening), q - 1)
     ELSE <<>>

\* currentIcon = {}
NoIcon == [name |-> <<>>, category |-> <<>>, jsxElement |-> <<>>, importStatement |-> <<>>]

\* The body of the loop over the lines
ParseLine(acc, line) ==
  LET named ==
        IF NameMatch(line) # <<>>
        THEN [icons |-> IF acc.currentIcon.name # <<>>
                        THEN Append(acc.icons, acc.currentIcon) ELSE acc.icons,
              currentIcon |-> [NoIcon EXCEPT !.name = NameMatch(line), !.category = <<"I", "c", "o", "n">>]]
        ELSE acc
      withJsx ==
        IF LabelMatch(line, <<"J", "S", "X", ":">>) # <<>>
        THEN [named EXCEPT !.currentIcon.jsxElement = LabelMatch(line, <<"J", "S", "X", ":">>)]
        ELSE named
  IN IF LabelMatch(line, <<"I", "m", "p", "o", "r", "t", ":">>) # <<>>
     THEN [withJsx EXCEPT !.currentIcon.importStatement = LabelMatch(line, <<"I", "m", "p", "o", "r", "t", ":">>)]
     ELSE withJsx

\* parseToolResult(result) for a result with text content and no
\* structuredContent
parseToolResult(text) ==
  LET lines == splitLines(text)
      parsed == FoldLeft(ParseLine, [icons |-> <<>>, currentIcon |-> NoIcon], lines)
      icons == IF parsed.currentIcon.name # <<>>
               THEN Append(parsed.icons, parsed.currentIcon) ELSE parsed.icons
  IN [query |-> QueryMatch(lines[1]), icons |-> icons, totalCount |-> Len(icons)]

InitFormat ==
  /\ ServerIdle
  /\ splitName = <<>>
  /\ splitWords = <<>>
  /\ lookupArgs = NoLookup
  /\ HttpIdle
  /\ \E query \in FormatQueries, maxResults \in FormatMaxResults,
        threshold \in FormatThresholds :
       handlerInput = [query |-> query,
                       icons |-> HandlerResults(CallOf(query, maxResults, threshold))]
  /\ toolResultText = <<>>
  /\ parsedContent = NoContent
  /\ iconArgs = NoIconArgs
  /\ sizedIconName = <<>>
  /\ strippedName = <<>>

\* The handler of search-icons formats the text of its result
FormatResult ==
  /\ toolResultText = <<>>
  /\ toolResultText' = ToolResultText(handlerInput.query, handlerInput.icons)
  /\ UNCHANGED << serverVars, splitName, splitWords, lookupArgs, httpVars,
                  handlerInput, parsedContent, iconArgs, sizedIconName, strippedName >>

\* The UI parses the text of the result
ParseResult ==
  /\ toolResultText # <<>>
  /\ parsedContent = NoContent
  /\ parsedContent' = parseToolResult(toolResultText)
  /\ UNCHANGED << serverVars, splitName, splitWords, lookupArgs, httpVars,
                  handlerInput, toolResultText, iconArgs, sizedIconName, strippedName >>

NextFormat == FormatResult \/ ParseResult

SpecFormat == InitFormat /\ [][NextFormat]_vars

\* The parser recovered the icons of the handler
IconsRecovered ==
  /\ Len(parsedContent.icons) = Len(handlerInput.icons)
  /\ \A i \in 1..Len(handlerInput.icons) :
       /\ i <= Len(parsedContent.icons)
       /\ parsedContent.icons[i].name = handlerInput.icons[i].name
       /\ parsedContent.icons[i].jsxElement = handlerInput.icons[i].jsxElement
       /\ parsedContent.icons[i].importStatement = handlerInput.icons[i].importStatement
  /\ parsedContent.totalCount = Len(handlerInput.icons)

\* C29 as stated: for a non-empty result list that the handler formats as
\* text, parseToolResult applied to the text recovers the original query,
\* the same sequence of icon names each with its JSX element and import
\* statement, and a totalCount equal to the number of icons.
C29_TextRoundTrip ==
  (parsedContent # NoContent /\ Len(handlerInput.icons) > 0) =>
    /\ parsedContent.query = handlerInput.query
    /\ IconsRecovered
====
